---- MODULE Spec2Model ----
(***************************************************************************)
(* Model of the scrape -> filter -> download -> caption -> aggregate       *)
(* pipeline: WebScraper (src/scraper/web_scraper.py), ImageDownloader      *)
(* (src/scraper/image_downloader.py) and ImageCaptionPipeline              *)
(* (src/pipeline/image_captioner.py).                                      *)
(* Further: the local-file batch mode of CaptionGenerator                  *)
(* (src/captioning/caption_generator.py), the lazily initialised           *)
(* components of GradioApp (src/ui/gradio_app.py) and the writers of       *)
(* CaptionExporter (src/pipeline/caption_exporter.py).                     *)
(*                                                                         *)
(* Strings that the code inspects (URLs, attribute values) are sequences   *)
(* of tokens: "http", "s", ":", "/", ".", a host, a name, an extension.    *)
(* str.startswith, str.lower and the `in` test work on these tokens.       *)
(***************************************************************************)
EXTENDS Integers, Sequences, FiniteSets, TLC

\* ------------------------------------------------------------------ bounds

\* Largest number of <img> elements on a page.
MaxImgs == 3

\* Largest value of the max_images argument.
MaxCap == 2

\* ------------------------------------------------------- program constants

\* download_image(url, min_size=200)
DefaultMinSize == 200

\* ------------------------------------------------------------ basic values

\* Python's None for an Optional[Image].
None == [kind |-> "None"]

\* A falsy Optional[str]: None or "".
NoStr == <<>>

StartsWith(s, p) == Len(s) >= Len(p) /\ SubSeq(s, 1, Len(p)) = p

EndsWith(s, p) == Len(s) >= Len(p) /\ SubSeq(s, Len(s) - Len(p) + 1, Len(s)) = p

Contains(s, p) == \E k \in 0..(Len(s) - Len(p)) : SubSeq(s, k + 1, k + Len(p)) = p

LowerTok(t) == CASE t = "SVG" -> "svg"
                 [] t = "DATA" -> "data"
                 [] t = "JPG" -> "jpg"
                 [] OTHER -> t

Lower(s) == [k \in 1..Len(s) |-> LowerTok(s[k])]

\* The URL every run is called with.
BaseUrl == <<"http", "s", ":", "/", "/", "example.com", "/", "page">>

\* ------------------------------------------------------ urllib.parse.urljoin

\* Position of the ":" that ends a leading scheme, 0 when there is none.
SchemeEnd(u) == IF Len(u) >= 2 /\ u[2] = ":" /\ u[1] \notin {"/", ".", ":"} THEN 2
                ELSE IF Len(u) >= 3 /\ u[1] = "http" /\ u[2] = "s" /\ u[3] = ":" THEN 3
                ELSE 0

\* scheme://netloc of an absolute URL.
Origin(u) == SubSeq(u, 1, SchemeEnd(u) + 3)

\* The URL up to and including the last "/" of its path.
DirOf(u) == LET slashes == {k \in (SchemeEnd(u) + 4)..Len(u) : u[k] = "/"}
            IN  IF slashes = {} THEN Origin(u) \o <<"/">>
                ELSE SubSeq(u, 1, CHOOSE k \in slashes : \A j \in slashes : j <= k)

Urljoin(base, rel) ==
    IF rel = <<>> THEN base
    ELSE IF SchemeEnd(rel) > 0 THEN rel
    ELSE IF StartsWith(rel, <<"/", "/">>) THEN SubSeq(base, 1, SchemeEnd(base)) \o rel
    ELSE IF StartsWith(rel, <<"/">>) THEN Origin(base) \o rel
    ELSE DirOf(base) \o rel

\* --------------------------------------------------------------- WebScraper

\* str.split() of a string with at least one word, item 0: the first run of
\* tokens that are not whitespace.
FirstWord(s) ==
    LET a == CHOOSE k \in 1..Len(s) : s[k] # " " /\ \A j \in 1..(k - 1) : s[j] = " "
        b == IF \E k \in a..Len(s) : s[k] = " "
             THEN CHOOSE k \in a..Len(s) : s[k] = " " /\ \A j \in a..(k - 1) : s[j] # " "
             ELSE Len(s) + 1
    IN  SubSeq(s, a, b - 1)

\* w.split(",")[0]: what stands before the first comma.
BeforeComma(w) ==
    IF \E k \in 1..Len(w) : w[k] = ","
    THEN SubSeq(w, 1, (CHOOSE k \in 1..Len(w) : w[k] = "," /\ \A j \in 1..(k - 1) : w[j] # ",") - 1)
    ELSE w

\* srcset.split() is the empty list: the string has no word.
NoWord(s) == \A k \in 1..Len(s) : s[k] = " "

\* srcset.split()[0].split(",")[0]; NoStr stands for the value the statement
\* does not produce when item 0 does not exist.
SrcsetFirst(s) == IF NoWord(s) THEN NoStr ELSE BeforeComma(FirstWord(s))

\* WebScraper._extract_image_url leaves with IndexError: src and data-src
\* are absent or empty, the element has a srcset attribute, and
\* srcset.split() has no item 0.
ExtractImageUrlRaises(img) ==
    /\ img.src = NoStr
    /\ img.data_src = NoStr
    /\ img.has_srcset
    /\ NoWord(img.srcset)

\* WebScraper._extract_image_url: src, else data-src, else the first URL of
\* srcset; then relative forms are made absolute.
ExtractImageUrl(img, base_url) ==
    LET first == IF img.src # NoStr THEN img.src ELSE img.data_src
        picked == IF first = NoStr /\ img.has_srcset THEN SrcsetFirst(img.srcset)
                  ELSE first
    IN  IF picked = NoStr THEN NoStr
        ELSE IF StartsWith(picked, <<"/", "/">>) THEN <<"http", "s", ":">> \o picked
        ELSE IF StartsWith(picked, <<"/">>) THEN Urljoin(base_url, picked)
        ELSE IF ~StartsWith(picked, <<"http">>) THEN Urljoin(base_url, picked)
        ELSE picked

\* WebScraper._is_svg
IsSvg(u) == EndsWith(Lower(u), <<".", "svg">>) \/ Contains(Lower(u), <<".", "svg">>)

IsDataUri(u) == StartsWith(u, <<"data", ":">>)

\* get_text(strip=True) of an element with one text node: the text without
\* its leading and trailing whitespace.
Strip(t) ==
    IF \A k \in 1..Len(t) : t[k] = " " THEN NoStr
    ELSE LET inked == {k \in 1..Len(t) : t[k] # " "}
             a == CHOOSE k \in inked : \A j \in inked : k <= j
             b == CHOOSE k \in inked : \A j \in inked : j <= k
         IN  SubSeq(t, a, b)

\* Variant of _extract_caption that looks at the next sibling before the
\* figure.
ExtractCaptionSiblingFirst(img) ==
    IF img.sibling \in {"p", "div", "span"} /\ "caption" \in img.sibling_class
    THEN Strip(img.sibling_text)
    ELSE IF img.parent = "figure" /\ img.has_figcaption THEN Strip(img.figcaption)
    ELSE NoStr

\* WebScraper._extract_caption
ExtractCaption(img) ==
    IF img.parent = "figure" /\ img.has_figcaption THEN Strip(img.figcaption)
    ELSE IF img.sibling \in {"p", "div", "span"} /\ "caption" \in img.sibling_class
         THEN Strip(img.sibling_text)
    ELSE NoStr

\* The element yields a descriptor: it has a source that is neither an SVG
\* nor a data URL for the tests of the scrapers.
Kept(img, base_url) ==
    LET img_url == ExtractImageUrl(img, base_url)
    IN  img_url # NoStr /\ ~IsSvg(img_url) /\ ~IsDataUri(img_url)

RECURSIVE ScrapeFromCountsKept(_, _, _)
\* Variant of the loop that numbers the descriptors it emits 1, 2, ...,
\* counting after the filtering.
ScrapeFromCountsKept(els, k, base_url) ==
    IF k > Len(els) THEN <<>>
    ELSE LET img == els[k]
             rest == ScrapeFromCountsKept(els, k + 1, base_url)
         IN  IF ~Kept(img, base_url) THEN rest
             ELSE <<[url |-> ExtractImageUrl(img, base_url), alt |-> img.alt,
                     title |-> img.title, width |-> img.width, height |-> img.height,
                     index |-> Cardinality({j \in 1..k : Kept(els[j], base_url)})]>>
                  \o rest

RECURSIVE ScrapeFrom(_, _, _)
\* The loop of scrape_images over img_elements[k..], idx counted from 1 over
\* every element.
ScrapeFrom(els, k, base_url) ==
    IF k > Len(els) THEN <<>>
    ELSE LET img == els[k]
             img_url == ExtractImageUrl(img, base_url)
             rest == ScrapeFrom(els, k + 1, base_url)
         IN  IF img_url = NoStr THEN rest
             ELSE IF IsSvg(img_url) THEN rest
             ELSE IF IsDataUri(img_url) THEN rest
             ELSE <<[url |-> img_url, alt |-> img.alt, title |-> img.title,
                     width |-> img.width, height |-> img.height, index |-> k]>> \o rest

\* WebScraper.scrape_images on a page that was fetched and parsed.
ScrapeImages(els, base_url) == ScrapeFrom(els, 1, base_url)

RECURSIVE ScrapeArticleFrom(_, _, _)
ScrapeArticleFrom(els, k, base_url) ==
    IF k > Len(els) THEN <<>>
    ELSE LET img == els[k]
             img_url == ExtractImageUrl(img, base_url)
             rest == ScrapeArticleFrom(els, k + 1, base_url)
         IN  IF img_url = NoStr \/ IsSvg(img_url) \/ IsDataUri(img_url) THEN rest
             ELSE <<[url |-> img_url, alt |-> img.alt, title |-> img.title,
                     caption |-> ExtractCaption(img), index |-> k]>> \o rest

\* WebScraper.scrape_article_images on the img elements of the content region.
ScrapeArticleImages(els, base_url) == ScrapeArticleFrom(els, 1, base_url)

\* What a call comes to: the exception that left it ("none" when it
\* returned) and the value it returned.
Returned(v) == [raised |-> "none", value |-> v]

Raised(e) == [raised |-> e, value |-> [kind |-> "None"]]

\* Variant of get_page_title without its `except Exception`: a failed GET
\* leaves the call as an exception.
GetPageTitleRaises(resp) ==
    IF resp.status # "ok" THEN Raised("RequestException")
    ELSE IF resp.has_title THEN Returned(resp.title)
    ELSE Returned("")

\* WebScraper.get_page_title: the stripped <title> text, "" when the page
\* has no <title>; `except Exception` turns a failed GET into "".
GetPageTitle(resp) ==
    IF resp.status # "ok" THEN Returned("")
    ELSE IF resp.has_title THEN Returned(resp.title)
    ELSE Returned("")

\* ---------------------------------------------------------- the environment

\* An <img> element: its attributes and the elements around it. An absent
\* attribute and an empty one are both NoStr, has_srcset tells them apart for
\* srcset; a srcset attribute is srcset_first followed by " 2x". parent is
\* the tag name of the parent, has_figcaption and figcaption the <figcaption>
\* inside the parent, sibling the tag name of the next sibling element
\* ("none" without one), sibling_class its class list, sibling_text its text.
Img(src, data_src, srcset_first, alt) ==
    [src |-> src, data_src |-> data_src, has_srcset |-> srcset_first # NoStr,
     srcset |-> IF srcset_first = NoStr THEN NoStr ELSE srcset_first \o <<" ", "2x">>,
     alt |-> alt, title |-> "", width |-> "",
     height |-> "", parent |-> "div", has_figcaption |-> FALSE, figcaption |-> NoStr,
     sibling |-> "none", sibling_class |-> {}, sibling_text |-> NoStr]

\* <figure><img src="/big.jpg" alt="Big"><figcaption>A big cat</figcaption></figure>
ImgBig == [Img(<<"/", "big", ".", "jpg">>, NoStr, NoStr, "Big")
             EXCEPT !.parent = "figure", !.has_figcaption = TRUE,
                    !.figcaption = <<"A big cat">>]

\* <img src="small.png">
ImgSmall == Img(<<"small", ".", "png">>, NoStr, NoStr, "Small")

\* <img data-src="//cdn.example.com/tiny.gif">
ImgTiny == Img(NoStr, <<"/", "/", "cdn.example.com", "/", "tiny", ".", "gif">>, NoStr, "")

\* <img src="http://example.com/gone.jpg">
ImgGone == Img(<<"http", ":", "/", "/", "example.com", "/", "gone", ".", "jpg">>,
               NoStr, NoStr, "Gone")

\* <img srcset="https://example.com/bad.jpg 2x">
ImgBad == Img(NoStr, NoStr,
              <<"http", "s", ":", "/", "/", "example.com", "/", "bad", ".", "jpg">>, "")

\* <img src="https://example.com/bomb.png">: more pixels than PIL accepts.
ImgBomb == Img(<<"http", "s", ":", "/", "/", "example.com", "/", "bomb", ".", "png">>,
               NoStr, NoStr, "")

\* <img src="pic.svg">
ImgSvg == Img(<<"pic", ".", "svg">>, NoStr, NoStr, "Logo")

\* <img> with no source attribute.
ImgNoSrc == Img(NoStr, NoStr, NoStr, "")

\* The elements the pages of the pipeline runs are built from.
PageElements == {ImgBig, ImgSmall, ImgGone, ImgBad, ImgBomb, ImgSvg}

RECURSIVE SeqsUpTo(_, _)
SeqsUpTo(S, n) ==
    IF n = 0 THEN {<<>>}
    ELSE LET shorter == SeqsUpTo(S, n - 1)
         IN  shorter \cup {Append(s, e) : s \in {t \in shorter : Len(t) = n - 1}, e \in S}

\* The img elements find_all("img") returns, in document order.
Pages == SeqsUpTo(PageElements, MaxImgs)

\* What the GET of a page can come to.
PageResponses == {[status |-> "ok", els |-> p] : p \in Pages}
                 \cup {[status |-> s, els |-> <<>>] :
                         s \in {"http_error", "transport_error", "parse_error"}}

\* What the GET of get_page_title can come to.
TitleResponses == {[status |-> "ok", has_title |-> TRUE, title |-> "Cats"],
                   [status |-> "ok", has_title |-> FALSE, title |-> ""],
                   [status |-> "http_error", has_title |-> FALSE, title |-> ""],
                   [status |-> "transport_error", has_title |-> FALSE, title |-> ""]}

Image(w, h, m) == [kind |-> "Image", width |-> w, height |-> h, mode |-> m]

\* What the GET of an image URL answers.
Web(u) ==
    CASE u = <<"http", "s", ":", "/", "/", "example.com", "/", "big", ".", "jpg">>
           -> [status |-> "ok", payload |-> Image(200, 200, "RGB")]
      [] u = <<"http", "s", ":", "/", "/", "example.com", "/", "small", ".", "png">>
           -> [status |-> "ok", payload |-> Image(50, 50, "P")]
      [] u = <<"http", "s", ":", "/", "/", "cdn.example.com", "/", "tiny", ".", "gif">>
           -> [status |-> "ok", payload |-> Image(10, 10, "L")]
      [] u = <<"http", ":", "/", "/", "example.com", "/", "gone", ".", "jpg">>
           -> [status |-> "http_error", payload |-> None]
      [] u = <<"http", "s", ":", "/", "/", "example.com", "/", "bad", ".", "jpg">>
           -> [status |-> "ok", payload |-> [kind |-> "corrupt"]]
      [] u = <<"http", "s", ":", "/", "/", "example.com", "/", "bomb", ".", "png">>
           -> [status |-> "ok", payload |-> [kind |-> "bomb"]]
      [] OTHER -> [status |-> "transport_error", payload |-> None]

\* The min_image_size values a pipeline is constructed with.
MinImageSizes == {DefaultMinSize, 40000}

\* The prompt argument: None or a text.
Prompts == {"None", "a photo of"}

\* The messages of the exceptions generate_caption raises.
OracleErrors == {"CUDA out of memory"}

\* ---------------------------------------------------------- ImageDownloader

\* Variant of the try block without `image = image.convert("RGB")`.
DownloadTryKeepsMode(url, min_size) ==
    LET response == Web(url)
    IN  IF response.status # "ok" THEN Raised("RequestException")
        ELSE IF response.payload.kind = "corrupt" THEN Raised("OSError")
        ELSE IF response.payload.kind = "bomb" THEN Raised("DecompressionBombError")
        ELSE IF response.payload.width * response.payload.height < min_size
             THEN Returned(None)
        ELSE Returned(response.payload)

\* The try block of download_image: requests.get and raise_for_status
\* raise a RequestException, Image.open an OSError on a payload that is no
\* image and a DecompressionBombError on one with too many pixels; an image
\* below min_size gives None, any other is returned in RGB.
DownloadTry(url, min_size) ==
    LET response == Web(url)
    IN  IF response.status # "ok" THEN Raised("RequestException")
        ELSE IF response.payload.kind = "corrupt" THEN Raised("OSError")
        ELSE IF response.payload.kind = "bomb" THEN Raised("DecompressionBombError")
        ELSE IF response.payload.width * response.payload.height < min_size
             THEN Returned(None)
        ELSE IF response.payload.mode # "RGB"
             THEN Returned([response.payload EXCEPT !.mode = "RGB"])
        ELSE Returned(response.payload)

\* Variant of download_image without the last clause, `except Exception`.
DownloadImageNoCatchAll(url, min_size) ==
    LET r == DownloadTry(url, min_size)
    IN  IF r.raised = "RequestException" THEN Returned(None)
        ELSE IF r.raised = "OSError" THEN Returned(None)
        ELSE r

\* ImageDownloader.download_image: the three except clauses return None.
DownloadImage(url, min_size) ==
    LET r == DownloadTry(url, min_size)
    IN  IF r.raised = "RequestException" THEN Returned(None)
        ELSE IF r.raised = "OSError" THEN Returned(None)
        ELSE IF r.raised # "none" THEN Returned(None)
        ELSE r

\* ------------------------------------------------------ ImageCaptionPipeline

VARIABLES
    min_image_size,  \* self.min_image_size, set by __init__
    pc,              \* where the running call is: idle, title, scrape, cap, loop,
                     \* caption, done (returned), raised (an exception left the call)
    mode,            \* "url" for process_url, "article" for process_article
    prompt,          \* the prompt argument
    max_images,      \* the max_images argument when it is an integer, else 0
    max_images_is_none, \* the max_images argument is None
    page_title,      \* local page_title
    images,          \* local images: the descriptors the loop runs over
    pos,             \* how many descriptors the loop has finished
    image,           \* local image: what download_image returned for the item
    results,         \* local results
    errors,          \* local errors
    summary,         \* the value returned, None until the call returns
    title_status,    \* history: how the GET of get_page_title went: none (not
                     \* yet), ok, no_title (the page has no <title>), failed
    page_status,     \* history: what the GET and parse of the scraper came to
    scraped,         \* history: the descriptors the scraper returned
    fetch_log,       \* history: the download_image calls and what they gave
    oracle_log,      \* history: the generate_caption calls and what they gave
    record_log,      \* history: the record each finished item was turned into
    batch_pc,        \* where the running caption_batch call is: idle, for (at
                     \* the for statement), done (returned), raised
    batch_locals,    \* the local names of the caption_batch call bound so far
    batch_out,       \* what the caption_batch call came to, None until it ends
    scrape_pc,       \* where the running scraper call is: idle, done, raised
    scrape_scope,    \* "page" for scrape_images, "article" for scrape_article_images
    scrape_base,     \* the url argument of the scraper call
    scrape_doc,      \* the parsed page: its blocks in document order
    scrape_els,      \* the <img> elements of the searched region, document order
    scrape_out,      \* the descriptors the scraper call returned
    pipeline_used,   \* history: some call on the pipeline object has returned
    page,            \* history: what the GET of the page answered in the running
                     \* call, None until then; kept only where calls are repeated
    previous,        \* history: the inputs and the summary of an earlier
                     \* process_url call, None while none is remembered
    components,      \* GradioApp's caption_generator, pipeline, scraper and
                     \* downloader: 0 for None, else which object of its class
    built,           \* history: how many objects of each class _init_models made
    oracle,          \* self.pipeline.generator of the app's pipeline: 0 while
                     \* there is no pipeline, else which CaptionGenerator
    oracles_built,   \* history: how many CaptionGenerators were made for it
    ui_pc,           \* where the running handler is: idle, init, body, done
    ui_call,         \* the handler that runs and its input
    ui_out,          \* what the handler returned: none, warning, error, result
    json_output,     \* the second value the handler returned: "" or "filled"
    html_output,     \* the third value the handler returned: "" or "filled"
    process_url_calls, \* calls of self.pipeline.process_url made by the handler
    ui_raised,       \* what raised inside the handler's try block, "none" if nothing
    export_pc,       \* where the running CaptionExporter call is: idle, done
    export_call,     \* the writer that runs and its data argument
    export_out       \* what the writer wrote, None until it ends

\* The state of a process_url / process_article call.
pipeline_vars == <<min_image_size, pc, mode, prompt, max_images, max_images_is_none, page_title, images,
                   pos, image, results, errors, summary, title_status, page_status,
                   scraped, fetch_log, oracle_log, record_log>>

\* The state of a process_image_batch / caption_batch call.
batch_vars == <<batch_pc, batch_locals, batch_out>>

\* The state of a scrape_images / scrape_article_images call.
scrape_vars == <<scrape_pc, scrape_scope, scrape_base, scrape_doc, scrape_els, scrape_out>>

\* What is remembered of the earlier calls on the pipeline object.
history_vars == <<pipeline_used, page, previous>>

\* The state of the GradioApp object and of its handlers.
ui_vars == <<components, built, oracle, oracles_built, ui_pc, ui_call, ui_out,
             json_output, html_output, process_url_calls, ui_raised>>

\* The state of a CaptionExporter call.
export_vars == <<export_pc, export_call, export_out>>

vars == <<pipeline_vars, batch_vars, scrape_vars, history_vars, ui_vars, export_vars>>

\* How a GET of get_page_title went.
TitleStatus(resp) == IF resp.status # "ok" THEN "failed"
                     ELSE IF resp.has_title THEN "ok" ELSE "no_title"

Min(a, b) == IF a <= b THEN a ELSE b

\* Variant of the cap that keeps one descriptor too many.
CapImagesOffByOne(imgs, n) ==
    IF n # 0 THEN SubSeq(imgs, 1, Min(n + 1, Len(imgs))) ELSE imgs

\* images[:max_images] under `if max_images:`
CapImages(imgs, n) == IF n # 0 THEN SubSeq(imgs, 1, Min(n, Len(imgs))) ELSE imgs

\* The idx of `for idx, img_data in enumerate(images, start=1)`.
ItemIdx(k, img_data) == k

\* The min_size download_image runs with: process_url passes
\* self.min_image_size, process_article passes nothing.
MinSizeArg(m, configured) == IF m = "url" THEN configured ELSE DefaultMinSize

\* Variant of the failure record with one text for both methods.
FetchFailureSameText(m, idx, img_data) ==
    [index |-> idx, url |-> img_data.url, error |-> "Download failed"]

\* The record appended when download_image returned None.
FetchFailure(m, idx, img_data) ==
    [index |-> idx, url |-> img_data.url,
     error |-> IF m = "url" THEN "Download failed or image too small"
               ELSE "Download failed"]

\* The record appended by `except Exception as e`.
OracleFailure(idx, img_data, msg) ==
    [index |-> idx, url |-> img_data.url, error |-> msg]

\* The record appended after generate_caption returned.
ResultRecord(m, idx, img_data, img, caption) ==
    IF m = "url"
    THEN [image_url |-> img_data.url, caption |-> caption, alt |-> img_data.alt,
          title |-> img_data.title, width |-> img.width, height |-> img.height,
          index |-> idx]
    ELSE [image_url |-> img_data.url, caption |-> caption,
          original_caption |-> img_data.caption, alt |-> img_data.alt,
          width |-> img.width, height |-> img.height, index |-> idx]

\* The dictionary the call returns.
Summary(u, title, imgs, res, errs) ==
    [url |-> u, title |-> title, total_images_found |-> Len(imgs),
     images_processed |-> Len(res), images_failed |-> Len(errs),
     results |-> res, errors |-> errs]

\* The caption generate_caption returns for an image.
Caption(img, p) == "a cat"

\* Variant of the scraper that swallows a failure and returns no descriptor.
ScrapeCallSwallows(m, resp) ==
    IF resp.status # "ok" THEN Returned(<<>>)
    ELSE IF m = "url" THEN Returned(ScrapeImages(resp.els, BaseUrl))
    ELSE Returned(ScrapeArticleImages(resp.els, BaseUrl))

\* scrape_images / scrape_article_images: a failed GET (RequestException) or
\* a failed parse is logged and raised again; otherwise the descriptors.
ScrapeCall(m, resp) ==
    IF resp.status \in {"http_error", "transport_error"} THEN Raised("RequestException")
    ELSE IF resp.status = "parse_error" THEN Raised("Exception")
    ELSE IF m = "url" THEN Returned(ScrapeImages(resp.els, BaseUrl))
    ELSE Returned(ScrapeArticleImages(resp.els, BaseUrl))

\* The message str(e) of an exception.
StrOf(e) == e

Init ==
    /\ min_image_size \in MinImageSizes
    /\ pc = "idle"
    /\ mode = "url"
    /\ prompt = "None"
    /\ max_images = 0
    /\ max_images_is_none = TRUE
    /\ page_title = ""
    /\ images = <<>>
    /\ pos = 0
    /\ image = None
    /\ results = <<>>
    /\ errors = <<>>
    /\ summary = None
    /\ title_status = "none"
    /\ page_status = "none"
    /\ scraped = <<>>
    /\ fetch_log = <<>>
    /\ oracle_log = <<>>
    /\ record_log = <<>>
    /\ batch_pc = "idle"
    /\ batch_locals = <<>>
    /\ batch_out = None
    /\ scrape_pc = "idle"
    /\ scrape_scope = "page"
    /\ scrape_base = BaseUrl
    /\ scrape_doc = <<>>
    /\ scrape_els = <<>>
    /\ scrape_out = <<>>
    /\ pipeline_used = FALSE
    /\ page = None
    /\ previous = None
    /\ components = [c \in {"caption_generator", "pipeline", "scraper", "downloader"} |-> 0]
    /\ built = [c \in {"caption_generator", "pipeline", "scraper", "downloader"} |-> 0]
    /\ oracle = 0
    /\ oracles_built = 0
    /\ ui_pc = "idle"
    /\ ui_call = None
    /\ ui_out = "none"
    /\ json_output = ""
    /\ html_output = ""
    /\ process_url_calls = 0
    /\ ui_raised = "none"
    /\ export_pc = "idle"
    /\ export_call = None
    /\ export_out = None

\* process_url(url, prompt, max_images) is called.
CallProcessUrl ==
    /\ pc = "idle"
    /\ \E p \in Prompts, n \in 0..MaxCap, none \in BOOLEAN :
         /\ none => n = 0
         /\ prompt' = p
         /\ max_images' = n
         /\ max_images_is_none' = none
    /\ mode' = "url"
    /\ pc' = "title"
    /\ UNCHANGED <<min_image_size, page_title, images, pos, image, results, errors,
                   summary, title_status, page_status, scraped, fetch_log, oracle_log,
                   record_log>>

\* process_article(url, prompt) is called.
CallProcessArticle ==
    /\ pc = "idle"
    /\ \E p \in Prompts : prompt' = p
    /\ max_images' = 0
    /\ max_images_is_none' = TRUE
    /\ mode' = "article"
    /\ pc' = "title"
    /\ UNCHANGED <<min_image_size, page_title, images, pos, image, results, errors,
                   summary, title_status, page_status, scraped, fetch_log, oracle_log,
                   record_log>>

\* page_title = self.scraper.get_page_title(url)
TitleFetch ==
    /\ pc = "title"
    /\ \E resp \in TitleResponses :
         LET r == GetPageTitle(resp)
         IN  /\ title_status' = TitleStatus(resp)
             /\ IF r.raised # "none"
                THEN /\ pc' = "raised"
                     /\ UNCHANGED page_title
                ELSE /\ page_title' = r.value
                     /\ pc' = "scrape"
    /\ UNCHANGED <<min_image_size, mode, prompt, max_images, max_images_is_none, images, pos, image,
                   results, errors, summary, page_status, scraped, fetch_log,
                   oracle_log, record_log>>

\* images = self.scraper.scrape_images(url) / scrape_article_images(url):
\* the exception leaves the call, or the descriptors come back.
ExtractAnswered(resp) ==
    /\ pc = "scrape"
    /\ LET r == ScrapeCall(mode, resp)
       IN  /\ page_status' = resp.status
           /\ IF r.raised # "none"
              THEN /\ pc' = "raised"
                   /\ UNCHANGED <<images, scraped>>
              ELSE /\ scraped' = r.value
                   /\ images' = r.value
                   /\ pc' = IF mode = "url" THEN "cap" ELSE "loop"
    /\ UNCHANGED <<min_image_size, mode, prompt, max_images, max_images_is_none, page_title, pos, image,
                   results, errors, summary, title_status, fetch_log, oracle_log,
                   record_log>>

\* The scraper call of the run, whatever the GET of the page answers.
Extract ==
    /\ pc = "scrape"
    /\ \E resp \in PageResponses : ExtractAnswered(resp)

\* Variant of the cap under `if max_images is not None:`.
CapUnlessNone ==
    /\ pc = "cap"
    /\ images' = IF max_images_is_none THEN images
                 ELSE SubSeq(images, 1, Min(max_images, Len(images)))
    /\ pc' = "loop"
    /\ UNCHANGED <<min_image_size, mode, prompt, max_images, max_images_is_none, page_title, pos, image,
                   results, errors, summary, title_status, page_status, scraped,
                   fetch_log, oracle_log, record_log>>

\* if max_images: images = images[:max_images]; None is not truthy.
Cap ==
    /\ pc = "cap"
    /\ images' = IF max_images_is_none THEN images ELSE CapImages(images, max_images)
    /\ pc' = "loop"
    /\ UNCHANGED <<min_image_size, mode, prompt, max_images, max_images_is_none, page_title, pos, image,
                   results, errors, summary, title_status, page_status, scraped,
                   fetch_log, oracle_log, record_log>>

\* Variant of the first half that tries a failed download again.
DownloadRetries ==
    /\ pc = "loop"
    /\ pos < Len(images)
    /\ LET img_data == images[pos + 1]
           min_size == MinSizeArg(mode, min_image_size)
           got == DownloadImage(img_data.url, min_size)
       IN  /\ fetch_log' = Append(fetch_log,
                  [at |-> pos + 1, url |-> img_data.url, min_size |-> min_size,
                   raised |-> got.raised, value |-> got.value])
           /\ IF got.raised # "none" \/ got.value = None
              THEN /\ image' = None
                   /\ pc' = "loop"
              ELSE /\ image' = got.value
                   /\ pc' = "caption"
    /\ UNCHANGED <<min_image_size, mode, prompt, max_images, max_images_is_none, page_title, images, pos,
                   results, errors, record_log, summary, title_status, page_status,
                   scraped, oracle_log>>

\* Variant of the first half that skips a failed download without a record.
DownloadSkipsSilently ==
    /\ pc = "loop"
    /\ pos < Len(images)
    /\ LET img_data == images[pos + 1]
           min_size == MinSizeArg(mode, min_image_size)
           got == DownloadImage(img_data.url, min_size)
       IN  /\ fetch_log' = Append(fetch_log,
                  [at |-> pos + 1, url |-> img_data.url, min_size |-> min_size,
                   raised |-> got.raised, value |-> got.value])
           /\ IF got.raised # "none" \/ got.value = None
              THEN /\ pos' = pos + 1
                   /\ image' = None
                   /\ pc' = "loop"
                   /\ UNCHANGED <<errors, record_log>>
              ELSE /\ image' = got.value
                   /\ pc' = "caption"
                   /\ UNCHANGED <<errors, pos, record_log>>
    /\ UNCHANGED <<min_image_size, mode, prompt, max_images, max_images_is_none, page_title, images,
                   results, summary, title_status, page_status, scraped, oracle_log>>

\* The first half of a loop iteration: download_image; on None the failure
\* record and `continue`; an exception out of it would be caught by the
\* loop's `except Exception`.
Download ==
    /\ pc = "loop"
    /\ pos < Len(images)
    /\ LET img_data == images[pos + 1]
           idx == ItemIdx(pos + 1, img_data)
           min_size == MinSizeArg(mode, min_image_size)
           got == DownloadImage(img_data.url, min_size)
           failure == IF got.raised # "none"
                      THEN OracleFailure(idx, img_data, StrOf(got.raised))
                      ELSE FetchFailure(mode, idx, img_data)
       IN  /\ fetch_log' = Append(fetch_log,
                  [at |-> pos + 1, url |-> img_data.url, min_size |-> min_size,
                   raised |-> got.raised, value |-> got.value])
           /\ IF got.raised # "none" \/ got.value = None
              THEN /\ errors' = Append(errors, failure)
                   /\ record_log' = Append(record_log,
                          [at |-> pos + 1, kind |-> "error", rec |-> failure])
                   /\ pos' = pos + 1
                   /\ image' = None
                   /\ pc' = "loop"
              ELSE /\ image' = got.value
                   /\ pc' = "caption"
                   /\ UNCHANGED <<errors, pos, record_log>>
    /\ UNCHANGED <<min_image_size, mode, prompt, max_images, max_images_is_none, page_title, images,
                   results, summary, title_status, page_status, scraped, oracle_log>>

\* Variant of the second half that calls generate_caption(image) without
\* the prompt argument.
GenerateWithoutPrompt ==
    /\ pc = "caption"
    /\ \E outcome \in {"ok"} \cup OracleErrors :
         LET img_data == images[pos + 1]
             idx == ItemIdx(pos + 1, img_data)
             result == ResultRecord(mode, idx, img_data, image, Caption(image, "None"))
             failure == OracleFailure(idx, img_data, StrOf(outcome))
         IN  /\ oracle_log' = Append(oracle_log,
                    [at |-> pos + 1, image |-> image, prompt |-> "None",
                     outcome |-> outcome])
             /\ IF outcome = "ok"
                THEN /\ results' = Append(results, result)
                     /\ record_log' = Append(record_log,
                            [at |-> pos + 1, kind |-> "result", rec |-> result])
                     /\ UNCHANGED errors
                ELSE /\ errors' = Append(errors, failure)
                     /\ record_log' = Append(record_log,
                            [at |-> pos + 1, kind |-> "error", rec |-> failure])
                     /\ UNCHANGED results
    /\ pos' = pos + 1
    /\ image' = None
    /\ pc' = "loop"
    /\ UNCHANGED <<min_image_size, mode, prompt, max_images, max_images_is_none, page_title, images,
                   summary, title_status, page_status, scraped, fetch_log>>

\* Variant of the second half without the loop's try/except: an exception of
\* generate_caption leaves the call.
GenerateUncaught ==
    /\ pc = "caption"
    /\ \E outcome \in {"ok"} \cup OracleErrors :
         LET img_data == images[pos + 1]
             idx == ItemIdx(pos + 1, img_data)
             result == ResultRecord(mode, idx, img_data, image, Caption(image, prompt))
         IN  /\ oracle_log' = Append(oracle_log,
                    [at |-> pos + 1, image |-> image, prompt |-> prompt,
                     outcome |-> outcome])
             /\ IF outcome = "ok"
                THEN /\ results' = Append(results, result)
                     /\ record_log' = Append(record_log,
                            [at |-> pos + 1, kind |-> "result", rec |-> result])
                     /\ pos' = pos + 1
                     /\ pc' = "loop"
                ELSE /\ pc' = "raised"
                     /\ UNCHANGED <<results, record_log, pos>>
    /\ image' = None
    /\ UNCHANGED <<min_image_size, mode, prompt, max_images, max_images_is_none, page_title, images,
                   errors, summary, title_status, page_status, scraped, fetch_log>>

\* Variant of the second half that puts the newest record first
\* (list.insert(0, ...) in place of list.append).
GeneratePrepends ==
    /\ pc = "caption"
    /\ \E outcome \in {"ok"} \cup OracleErrors :
         LET img_data == images[pos + 1]
             idx == ItemIdx(pos + 1, img_data)
             result == ResultRecord(mode, idx, img_data, image, Caption(image, prompt))
             failure == OracleFailure(idx, img_data, StrOf(outcome))
         IN  /\ oracle_log' = Append(oracle_log,
                    [at |-> pos + 1, image |-> image, prompt |-> prompt,
                     outcome |-> outcome])
             /\ IF outcome = "ok"
                THEN /\ results' = <<result>> \o results
                     /\ record_log' = Append(record_log,
                            [at |-> pos + 1, kind |-> "result", rec |-> result])
                     /\ UNCHANGED errors
                ELSE /\ errors' = <<failure>> \o errors
                     /\ record_log' = Append(record_log,
                            [at |-> pos + 1, kind |-> "error", rec |-> failure])
                     /\ UNCHANGED results
    /\ pos' = pos + 1
    /\ image' = None
    /\ pc' = "loop"
    /\ UNCHANGED <<min_image_size, mode, prompt, max_images, max_images_is_none, page_title, images,
                   summary, title_status, page_status, scraped, fetch_log>>

\* The second half: generate_caption returns and the result is stored, or it
\* raises and `except Exception` stores the failure.
Generate ==
    /\ pc = "caption"
    /\ \E outcome \in {"ok"} \cup OracleErrors :
         LET img_data == images[pos + 1]
             idx == ItemIdx(pos + 1, img_data)
             result == ResultRecord(mode, idx, img_data, image, Caption(image, prompt))
             failure == OracleFailure(idx, img_data, StrOf(outcome))
         IN  /\ oracle_log' = Append(oracle_log,
                    [at |-> pos + 1, image |-> image, prompt |-> prompt,
                     outcome |-> outcome])
             /\ IF outcome = "ok"
                THEN /\ results' = Append(results, result)
                     /\ record_log' = Append(record_log,
                            [at |-> pos + 1, kind |-> "result", rec |-> result])
                     /\ UNCHANGED errors
                ELSE /\ errors' = Append(errors, failure)
                     /\ record_log' = Append(record_log,
                            [at |-> pos + 1, kind |-> "error", rec |-> failure])
                     /\ UNCHANGED results
    /\ pos' = pos + 1
    /\ image' = None
    /\ pc' = "loop"
    /\ UNCHANGED <<min_image_size, mode, prompt, max_images, max_images_is_none, page_title, images,
                   summary, title_status, page_status, scraped, fetch_log>>

\* Variant of the aggregation that counts the descriptors the scraper
\* returned, not those left after the cap.
FinishCountsScraped ==
    /\ pc = "loop"
    /\ pos = Len(images)
    /\ summary' = Summary(BaseUrl, page_title, scraped, results, errors)
    /\ pc' = "done"
    /\ UNCHANGED <<min_image_size, mode, prompt, max_images, max_images_is_none, page_title, images, pos,
                   image, results, errors, title_status, page_status, scraped,
                   fetch_log, oracle_log, record_log>>

\* The loop is over: the summary is built and returned.
Finish ==
    /\ pc = "loop"
    /\ pos = Len(images)
    /\ summary' = Summary(BaseUrl, page_title, images, results, errors)
    /\ pc' = "done"
    /\ UNCHANGED <<min_image_size, mode, prompt, max_images, max_images_is_none, page_title, images, pos,
                   image, results, errors, title_status, page_status, scraped,
                   fetch_log, oracle_log, record_log>>

\* Variant of the return in which results and errors are kept on the
\* pipeline object and so outlive the call.
ReturnKeepsRecords ==
    /\ pc \in {"done", "raised"}
    /\ pc' = "idle"
    /\ mode' = "url"
    /\ prompt' = "None"
    /\ max_images' = 0
    /\ max_images_is_none' = TRUE
    /\ page_title' = ""
    /\ images' = <<>>
    /\ pos' = 0
    /\ image' = None
    /\ summary' = None
    /\ title_status' = "none"
    /\ page_status' = "none"
    /\ scraped' = <<>>
    /\ fetch_log' = <<>>
    /\ oracle_log' = <<>>
    /\ record_log' = <<>>
    /\ UNCHANGED <<min_image_size, results, errors>>

\* The caller has the summary or the exception; the pipeline object is free
\* for the next call, whose locals start afresh.
Return ==
    /\ pc \in {"done", "raised"}
    /\ pc' = "idle"
    /\ mode' = "url"
    /\ prompt' = "None"
    /\ max_images' = 0
    /\ max_images_is_none' = TRUE
    /\ page_title' = ""
    /\ images' = <<>>
    /\ pos' = 0
    /\ image' = None
    /\ results' = <<>>
    /\ errors' = <<>>
    /\ summary' = None
    /\ title_status' = "none"
    /\ page_status' = "none"
    /\ scraped' = <<>>
    /\ fetch_log' = <<>>
    /\ oracle_log' = <<>>
    /\ record_log' = <<>>
    /\ UNCHANGED min_image_size

\* ------------------------------------------------- local-file batch mode

\* Largest number of paths handed to caption_batch.
MaxPaths == 3

\* The files on disk: one image, one that is no image, and a path with no file.
Paths == {"cat.jpg", "notes.txt", "missing.jpg"}

\* BLIP2Model.generate_caption_from_path: Image.open(image_path).convert("RGB")
\* and generate_caption; whatever is raised is logged and raised again.
GenerateCaptionFromPath(image_path, p) ==
    IF image_path = "missing.jpg" THEN Raised("FileNotFoundError")
    ELSE IF image_path = "notes.txt" THEN Raised("UnidentifiedImageError")
    ELSE Returned(Caption(Image(200, 200, "RGB"), p))

\* CaptionGenerator.default_prompt (None unless given to __init__).
DefaultPrompt == "None"

\* CaptionGenerator.caption_single: used_prompt = prompt or self.default_prompt.
CaptionSingle(image_path, p) ==
    LET used_prompt == IF p # "None" THEN p ELSE DefaultPrompt
        caption == GenerateCaptionFromPath(image_path, used_prompt)
    IN  IF caption.raised # "none" THEN caption
        ELSE Returned([image_path |-> image_path, prompt |-> used_prompt,
                       caption |-> caption.value])

\* The body of caption_batch's loop for one path: the record of
\* caption_single, or the record built by `except Exception as e`.
BatchRecord(image_path, p) ==
    LET result == CaptionSingle(image_path, p)
    IN  IF result.raised = "none" THEN result.value
        ELSE [image_path |-> image_path, caption |-> "None", error |-> StrOf(result.raised)]

\* The loop of caption_batch over an iterable of paths.
RECURSIVE BatchRecords(_, _)
BatchRecords(paths, p) ==
    IF paths = <<>> THEN <<>>
    ELSE <<BatchRecord(Head(paths), p)>> \o BatchRecords(Tail(paths), p)

\* Reading a local name: a name the function assigns somewhere but has not
\* bound yet raises UnboundLocalError.
ReadLocal(locals, name) ==
    IF name \in DOMAIN locals THEN Returned(locals[name])
    ELSE Raised("UnboundLocalError")

\* The iterable of `for idx, image_path in enumerate(image_path, start=1)`:
\* the name read is image_path, the loop's own target, not image_paths.
ForIterable(locals) == ReadLocal(locals, "image_path")

\* The other calls are at rest while a batch call runs.
BatchFrame == UNCHANGED <<pipeline_vars, scrape_vars, history_vars, ui_vars, export_vars>>

\* process_image_batch(image_paths, prompt) is called and calls
\* caption_batch, which binds results = [] and reaches the for statement.
CallProcessImageBatch ==
    /\ batch_pc = "idle"
    /\ \E image_paths \in SeqsUpTo(Paths, MaxPaths), p \in Prompts :
         batch_locals' = [image_paths |-> image_paths, prompt |-> p, results |-> <<>>]
    /\ batch_pc' = "for"
    /\ batch_out' = None
    /\ BatchFrame

\* caption_batch evaluates the iterable of its for statement and, if that
\* gives one, runs the loop over it and returns results.
CaptionBatch ==
    /\ batch_pc = "for"
    /\ LET iterable == ForIterable(batch_locals)
       IN  IF iterable.raised # "none"
           THEN /\ batch_out' = iterable
                /\ batch_pc' = "raised"
           ELSE /\ batch_out' = Returned(BatchRecords(iterable.value, batch_locals.prompt))
                /\ batch_pc' = "done"
    /\ UNCHANGED batch_locals
    /\ BatchFrame

\* The caller has the outcome; the next call can start.
BatchReturn ==
    /\ batch_pc \in {"done", "raised"}
    /\ batch_pc' = "idle"
    /\ batch_locals' = <<>>
    /\ batch_out' = None
    /\ BatchFrame

\* --------------------------------------------------------- the scraper alone

\* Largest number of <img> elements in the region a scraper call searches.
MaxRegion == 2

\* <img src="path/to/image.SVG">
ImgSvgUpper == Img(<<"path", "/", "to", "/", "image", ".", "SVG">>, NoStr, NoStr, "")

\* <img src="https://example.com/icon.svg?v=2">
ImgSvgQuery == Img(<<"http", "s", ":", "/", "/", "example.com", "/", "icon", ".", "svg",
                     "?", "v=2">>, NoStr, NoStr, "")

\* <img src="data:image/png;base64,AAAA">
ImgData == Img(<<"data", ":", "image/png;base64,AAAA">>, NoStr, NoStr, "")

\* <img src="DATA:image/png;base64,AAAA">
ImgDataUpper == Img(<<"DATA", ":", "image/png;base64,AAAA">>, NoStr, NoStr, "")

\* <img src="ftp://files.example.com/scan.jpg">
ImgFtp == Img(<<"ftp", ":", "/", "/", "files.example.com", "/", "scan", ".", "jpg">>,
              NoStr, NoStr, "")

\* <img src="http-banner.png">: a file next to the page whose name begins
\* with the letters http.
ImgHttpName == Img(<<"http", "-banner", ".", "png">>, NoStr, NoStr, "")

\* <img srcset="">
ImgSrcsetEmpty == [Img(NoStr, NoStr, NoStr, "") EXCEPT !.has_srcset = TRUE]

\* <img src="a.jpg" data-src="b.jpg" srcset="c.jpg 1x, d.jpg 2x">
ImgAllThree == [Img(<<"a", ".", "jpg">>, <<"b", ".", "jpg">>, NoStr, "")
                  EXCEPT !.has_srcset = TRUE,
                         !.srcset = <<"c", ".", "jpg", " ", "1x", ",", " ",
                                      "d", ".", "jpg", " ", "2x">>]

\* <img src="" data-src="lazy.jpg" srcset="set.jpg 2x">
ImgLazy == Img(NoStr, <<"lazy", ".", "jpg">>, <<"set", ".", "jpg">>, "")

\* <img srcset="one.jpg, two.jpg 2x">
ImgSrcsetTwo == [Img(NoStr, NoStr, NoStr, "")
                   EXCEPT !.has_srcset = TRUE,
                          !.srcset = <<"one", ".", "jpg", ",", " ",
                                       "two", ".", "jpg", " ", "2x">>]

\* The elements the regions of the scraper calls are built from.
RegionElements == {ImgBig, ImgSmall, ImgTiny, ImgGone, ImgBad, ImgSvg, ImgNoSrc,
                   ImgSvgUpper, ImgSvgQuery, ImgData, ImgDataUpper, ImgFtp, ImgHttpName,
                   ImgSrcsetEmpty, ImgAllThree, ImgLazy, ImgSrcsetTwo}

\* <figure><img src="/fig.jpg"><figcaption> Above </figcaption></figure>
ImgFigure == [Img(<<"/", "fig", ".", "jpg">>, NoStr, NoStr, "")
                EXCEPT !.parent = "figure", !.has_figcaption = TRUE,
                       !.figcaption = <<" ", "Above", " ">>,
                       !.sibling = "figcaption", !.sibling_text = <<" ", "Above", " ">>]

\* <figure><img src="/both.jpg"><p class="caption">Below</p>
\* <figcaption>Above</figcaption></figure>
ImgFigureBoth == [Img(<<"/", "both", ".", "jpg">>, NoStr, NoStr, "")
                    EXCEPT !.parent = "figure", !.has_figcaption = TRUE,
                           !.figcaption = <<"Above">>, !.sibling = "p",
                           !.sibling_class = {"caption"}, !.sibling_text = <<"Below">>]

\* <figure><img src="/void.jpg"><p class="caption">Below</p>
\* <figcaption></figcaption></figure>
ImgFigureEmpty == [Img(<<"/", "void", ".", "jpg">>, NoStr, NoStr, "")
                     EXCEPT !.parent = "figure", !.has_figcaption = TRUE,
                            !.sibling = "p", !.sibling_class = {"caption"},
                            !.sibling_text = <<"Below">>]

\* <figure><img src="/span.jpg"><span class="caption photo"> By A </span></figure>
ImgFigureSpan == [Img(<<"/", "span", ".", "jpg">>, NoStr, NoStr, "")
                    EXCEPT !.parent = "figure", !.sibling = "span",
                           !.sibling_class = {"caption", "photo"},
                           !.sibling_text = <<" ", "By A", " ">>]

\* <div><img src="/p.jpg"><p class="caption">Below</p></div>
ImgSiblingP == [Img(<<"/", "p", ".", "jpg">>, NoStr, NoStr, "")
                  EXCEPT !.sibling = "p", !.sibling_class = {"caption"},
                         !.sibling_text = <<"Below">>]

\* <div><img src="/em.jpg"><em class="caption">Photo</em></div>
ImgSiblingEm == [Img(<<"/", "em", ".", "jpg">>, NoStr, NoStr, "")
                   EXCEPT !.sibling = "em", !.sibling_class = {"caption"},
                          !.sibling_text = <<"Photo">>]

\* <div><img src="/credit.jpg"><p class="credit">Agency</p></div>
ImgSiblingCredit == [Img(<<"/", "credit", ".", "jpg">>, NoStr, NoStr, "")
                       EXCEPT !.sibling = "p", !.sibling_class = {"credit"},
                              !.sibling_text = <<"Agency">>]

\* The elements with something around them that the caption search reads.
CaptionElements == {ImgFigure, ImgFigureBoth, ImgFigureEmpty, ImgFigureSpan,
                    ImgSiblingP, ImgSiblingEm, ImgSiblingCredit}

\* The loop over the region is left by the exception of the first element
\* whose _extract_image_url raises; `except Exception` logs and re-raises.
ScrapeRaises(els) == \E k \in 1..Len(els) : ExtractImageUrlRaises(els[k])

\* The url arguments of the scraper calls.
BaseUrls == {BaseUrl,
             <<"http", ":", "/", "/", "example.com", "/", "news", "/", "story">>}

\* Largest number of blocks of a page with several blocks.
MaxBlocks == 2

\* The default content_selectors of scrape_article_images, in list order.
content_selectors == <<"article", ".article-content", ".post-content", ".entry-content",
                       "#content", "main">>

\* A block of the page body: the selectors its element matches (none for a
\* plain <div>) and the <img> elements inside it.
Block(matches, imgs) == [matches |-> matches, imgs |-> imgs]

\* What the element of a block is: a plain <div>, an element matching one
\* selector of the list, <main class="post-content">.
MatchSets == {{}, {".post-content", "main"}}
                 \cup {{content_selectors[i]} : i \in 1..Len(content_selectors)}

\* The elements the blocks of a page with several blocks hold.
BlockElements == {ImgBig, ImgSmall}

\* The parsed pages of the scraper calls: one plain block holding a region
\* of elements, an <article> holding one element with a caption near it, or
\* blocks of at most one element each.
Docs == {<<Block({}, els)>> : els \in SeqsUpTo(RegionElements, MaxRegion)}
            \cup {<<Block({"article"}, <<e>>)>> : e \in CaptionElements}
            \cup (SeqsUpTo({Block(m, imgs) : m \in MatchSets,
                                             imgs \in SeqsUpTo(BlockElements, 1)},
                           MaxBlocks)
                      \ {<<>>})

RECURSIVE FindAllImg(_)
\* soup.find_all("img"): the <img> elements of all blocks, document order.
FindAllImg(doc) == IF doc = <<>> THEN <<>> ELSE Head(doc).imgs \o FindAllImg(Tail(doc))

\* soup.select_one(selector): the first block, in document order, that
\* matches; 0 for None.
SelectOne(doc, selector) ==
    IF \E b \in 1..Len(doc) : selector \in doc[b].matches
    THEN CHOOSE b \in 1..Len(doc) :
             /\ selector \in doc[b].matches
             /\ \A a \in 1..(b - 1) : selector \notin doc[a].matches
    ELSE 0

RECURSIVE ContentLast(_, _, _)
\* Variant of the selector loop without its break: the last selector of the
\* list that matches decides.
ContentLast(doc, i, found) ==
    IF i > Len(content_selectors) THEN found
    ELSE ContentLast(doc, i + 1,
                     IF SelectOne(doc, content_selectors[i]) # 0
                     THEN SelectOne(doc, content_selectors[i]) ELSE found)

RECURSIVE ContentFrom(_, _)
\* The selector loop of scrape_article_images from selector i on: the block
\* of the first selector that matches, 0 when the loop ends with None.
ContentFrom(doc, i) ==
    IF i > Len(content_selectors) THEN 0
    ELSE IF SelectOne(doc, content_selectors[i]) # 0
         THEN SelectOne(doc, content_selectors[i])
    ELSE ContentFrom(doc, i + 1)

\* Variant of ContentImgs that searches the region ContentLast finds.
ContentImgsLast(doc) ==
    IF ContentLast(doc, 1, 0) = 0 THEN FindAllImg(doc)
    ELSE doc[ContentLast(doc, 1, 0)].imgs

\* content.find_all("img"): the elements of the content block, of the whole
\* page when no selector matched.
ContentImgs(doc) ==
    IF ContentFrom(doc, 1) = 0 THEN FindAllImg(doc) ELSE doc[ContentFrom(doc, 1)].imgs

\* The other calls are at rest while a scraper call runs.
ScrapeFrame == UNCHANGED <<pipeline_vars, batch_vars, history_vars, ui_vars, export_vars>>

\* scrape_images(url) is called on a page that is fetched and parsed, and
\* returns its descriptors.
CallScrapeImages ==
    /\ scrape_pc = "idle"
    /\ \E u \in BaseUrls, doc \in Docs :
         LET els == FindAllImg(doc)
         IN  /\ scrape_base' = u
             /\ scrape_doc' = doc
             /\ scrape_els' = els
             /\ scrape_out' = IF ScrapeRaises(els) THEN <<>> ELSE ScrapeImages(els, u)
             /\ scrape_pc' = IF ScrapeRaises(els) THEN "raised" ELSE "done"
    /\ scrape_scope' = "page"
    /\ ScrapeFrame

\* scrape_article_images(url) is called on a page that is fetched and
\* parsed, picks its content region and returns the descriptors of it.
CallScrapeArticleImages ==
    /\ scrape_pc = "idle"
    /\ \E u \in BaseUrls, doc \in Docs :
         LET els == ContentImgs(doc)
         IN  /\ scrape_base' = u
             /\ scrape_doc' = doc
             /\ scrape_els' = els
             /\ scrape_out' = IF ScrapeRaises(els) THEN <<>>
                              ELSE ScrapeArticleImages(els, u)
             /\ scrape_pc' = IF ScrapeRaises(els) THEN "raised" ELSE "done"
    /\ scrape_scope' = "article"
    /\ ScrapeFrame

\* The caller has the descriptors or the exception; the next call can start.
ScrapeReturn ==
    /\ scrape_pc \in {"done", "raised"}
    /\ scrape_pc' = "idle"
    /\ scrape_scope' = "page"
    /\ scrape_base' = BaseUrl
    /\ scrape_doc' = <<>>
    /\ scrape_els' = <<>>
    /\ scrape_out' = <<>>
    /\ ScrapeFrame

\* ------------------------------------------------------------ the UI layer

\* The attributes _init_models fills, in the order of its if statements.
ComponentOrder == <<"caption_generator", "pipeline", "scraper", "downloader">>

\* The constructors that load a model and can therefore raise.
Loaders == {"caption_generator", "pipeline"}

\* The methods of ImageCaptionPipeline.
PipelineMethods == {"process_url", "process_article", "process_image_file",
                    "process_image_batch"}

\* How many CaptionGenerators a pipeline method constructs: each of them
\* only reads self.generator.
OraclesBuiltBy(m) ==
    CASE m = "process_url" -> 0
      [] m = "process_article" -> 0
      [] m = "process_image_file" -> 0
      [] m = "process_image_batch" -> 0

\* Variant of _init_models without its `is None` tests.
ConstructsAlways(comps, c) == TRUE

\* `if self.<c> is None:`
NeedsConstruction(comps, c) == comps[c] = 0

RECURSIVE InitModelsFrom(_, _, _, _)
\* _init_models from its i-th if statement on; `fails` is the constructor
\* that raises when called, "none" when none does.
InitModelsFrom(comps, blt, i, fails) ==
    IF i > Len(ComponentOrder)
    THEN [components |-> comps, built |-> blt, raised |-> "none"]
    ELSE LET c == ComponentOrder[i]
         IN  IF ~NeedsConstruction(comps, c)
             THEN InitModelsFrom(comps, blt, i + 1, fails)
             ELSE IF fails = c
             THEN [components |-> comps, built |-> blt, raised |-> "Exception"]
             ELSE InitModelsFrom([comps EXCEPT ![c] = blt[c] + 1],
                                 [blt EXCEPT ![c] = blt[c] + 1], i + 1, fails)

\* GradioApp._init_models
InitModelsCall(comps, blt, fails) == InitModelsFrom(comps, blt, 1, fails)

\* The other calls are at rest while a handler runs.
UiFrame == UNCHANGED <<pipeline_vars, batch_vars, scrape_vars, history_vars, export_vars>>

\* The url texts a user submits: nothing, blanks, a URL, a URL after a blank.
UrlInputs == {NoStr, <<" ", " ">>, BaseUrl, <<" ">> \o BaseUrl}

\* `not url or not url.strip()`; NoStr stands for None and for "".
UrlIsBlank(url) == url = NoStr \/ Strip(url) = NoStr

\* Variant of the handler's except clause that lets the exception go on.
OnExceptionReraises(e) == [out |-> "raised", json |-> "", html |-> ""]

\* `except Exception as e: return error_msg, "", ""`
OnException(e) == [out |-> "error", json |-> "", html |-> ""]

\* Gradio calls a handler with what the user entered: nothing ("blank") or
\* something ("given"), and a prompt; caption_from_url gets a url text.
CallHandler ==
    /\ ui_pc = "idle"
    /\ \E h \in {"caption_single_image", "caption_from_url", "caption_batch_images"},
          x \in {"blank", "given"}, p \in Prompts, u \in UrlInputs :
         ui_call' = IF h = "caption_from_url"
                    THEN [handler |-> h,
                          input |-> IF UrlIsBlank(u) THEN "blank" ELSE "given",
                          prompt |-> p, url |-> u]
                    ELSE [handler |-> h, input |-> x, prompt |-> p, url |-> NoStr]
    /\ ui_pc' = "init"
    /\ ui_out' = "none"
    /\ json_output' = ""
    /\ html_output' = ""
    /\ process_url_calls' = 0
    /\ ui_raised' = "none"
    /\ UNCHANGED <<components, built, oracle, oracles_built>>
    /\ UiFrame

\* The handler calls self._init_models() inside its try block; constructing
\* the pipeline constructs its CaptionGenerator (ImageCaptionPipeline.__init__).
InitModels ==
    /\ ui_pc = "init"
    /\ \E fails \in Loaders \cup {"none"} :
         LET r == InitModelsCall(components, built, fails)
             made == r.built["pipeline"] - built["pipeline"]
         IN  /\ components' = r.components
             /\ built' = r.built
             /\ oracles_built' = oracles_built + made
             /\ oracle' = IF made > 0 THEN oracles_built + made ELSE oracle
             /\ IF r.raised # "none"
                THEN /\ ui_out' = OnException(r.raised).out
                     /\ ui_raised' = "_init_models"
                     /\ ui_pc' = "done"
                ELSE /\ ui_out' = "none"
                     /\ ui_raised' = "none"
                     /\ ui_pc' = "body"
    /\ UNCHANGED <<ui_call, json_output, html_output, process_url_calls>>
    /\ UiFrame

\* The rest of the handler: a warning for a blank input; else
\* caption_single_image asks the generator's model, caption_from_url calls
\* self.pipeline.process_url and writes the summary through to_html into a
\* temporary file, caption_batch_images calls caption_batch; an exception
\* becomes an error message.
HandlerBody ==
    /\ ui_pc = "body"
    /\ IF ui_call.input = "blank"
       THEN /\ ui_out' = "warning"
            /\ json_output' = ""
            /\ html_output' = ""
            /\ UNCHANGED <<oracle, oracles_built, process_url_calls, ui_raised>>
       ELSE IF ui_call.handler = "caption_from_url"
       THEN /\ \E status \in {"ok", "http_error"}, export \in {"ok", "OSError"} :
                 LET raised == IF status # "ok" THEN "process_url"
                               ELSE IF export # "ok" THEN "to_html"
                               ELSE "none"
                     ret == IF raised # "none" THEN OnException(raised)
                            ELSE [out |-> "result", json |-> "filled", html |-> "filled"]
                 IN  /\ ui_raised' = raised
                     /\ ui_out' = ret.out
                     /\ json_output' = ret.json
                     /\ html_output' = ret.html
            /\ process_url_calls' = process_url_calls + 1
            /\ oracles_built' = oracles_built + OraclesBuiltBy("process_url")
            /\ oracle' = IF OraclesBuiltBy("process_url") > 0 THEN oracles_built'
                         ELSE oracle
       ELSE IF ui_call.handler = "caption_batch_images"
       THEN /\ ui_out' = IF ForIterable([image_paths |-> <<"cat.jpg">>,
                                         prompt |-> ui_call.prompt,
                                         results |-> <<>>]).raised # "none"
                         THEN "error" ELSE "result"
            /\ ui_raised' = IF ui_out' = "error" THEN "caption_batch" ELSE "none"
            /\ UNCHANGED <<oracle, oracles_built, json_output, html_output,
                           process_url_calls>>
       ELSE /\ \E outcome \in {"ok"} \cup OracleErrors :
                 /\ ui_out' = IF outcome = "ok" THEN "result" ELSE "error"
                 /\ ui_raised' = IF outcome = "ok" THEN "none" ELSE "generate_caption"
            /\ UNCHANGED <<oracle, oracles_built, json_output, html_output,
                           process_url_calls>>
    /\ ui_pc' = "done"
    /\ UNCHANGED <<components, built, ui_call>>
    /\ UiFrame

\* The handler has returned its message.
HandlerReturn ==
    /\ ui_pc = "done"
    /\ ui_pc' = "idle"
    /\ ui_call' = None
    /\ UNCHANGED <<components, built, oracle, oracles_built, ui_out, json_output,
                   html_output, process_url_calls, ui_raised>>
    /\ UiFrame

\* A method of the app's pipeline object is called from outside a handler.
PipelineMethodCall ==
    /\ ui_pc = "idle"
    /\ components["pipeline"] # 0
    /\ \E m \in PipelineMethods :
         /\ oracles_built' = oracles_built + OraclesBuiltBy(m)
         /\ oracle' = IF OraclesBuiltBy(m) > 0 THEN oracles_built' ELSE oracle
         /\ ui_call' = [handler |-> m, input |-> "given", prompt |-> "None",
                        url |-> NoStr]
    /\ ui_pc' = "done"
    /\ ui_out' = "none"
    /\ json_output' = ""
    /\ html_output' = ""
    /\ process_url_calls' = 0
    /\ ui_raised' = "none"
    /\ UNCHANGED <<components, built>>
    /\ UiFrame

\* ------------------------------------------------------------ the writers

\* Largest number of records in the results list handed to a writer.
MaxRecords == 1

\* A dictionary that has the keys of K, with the values `full` gives them.
Dict(full, K) == [keys |-> K, at |-> full]

\* A success record with every field, as the writers render its values.
FullRecord == [index |-> "1", image_url |-> "https://example.com/big.jpg",
               caption |-> "a cat", alt |-> "Big", width |-> "200", height |-> "200"]

\* The records of a results list: any fields may be absent.
ExportRecords == {Dict(FullRecord, K) : K \in SUBSET DOMAIN FullRecord}

\* A summary with every field and the results list rs.
FullSummary(rs) == [title |-> "Cats", url |-> "https://example.com/page",
                    total_images_found |-> "1", images_processed |-> "1",
                    images_failed |-> "0", results |-> rs]

SummaryKeys == {"title", "url", "total_images_found", "images_processed",
                "images_failed", "results"}

\* The dictionaries handed to the writers: a summary with all its fields,
\* with one field absent, with only results, or empty.
ExportData ==
    {Dict(FullSummary(IF "results" \in K THEN rs ELSE <<>>), K) :
        K \in {SummaryKeys, {"results"}, {}} \cup {SummaryKeys \ {k} : k \in SummaryKeys},
        rs \in SeqsUpTo(ExportRecords, MaxRecords)}

\* Variant of dict.get that gives None, not the default, for an absent
\* field other than the results list.
GetNone(d, k, default) == IF k \in d.keys THEN d.at[k]
                          ELSE IF k = "results" THEN default ELSE "None"

\* dict.get(k, default)
Get(d, k, default) == IF k \in d.keys THEN d.at[k] ELSE default

\* to_csv: the header row and one row for each record.
ToCsv(data) ==
    LET recs == Get(data, "results", <<>>)
    IN  Returned([header |-> <<"Index", "Image URL", "Caption", "Alt Text", "Width",
                               "Height">>,
                  rows |-> [j \in 1..Len(recs) |->
                              [index |-> Get(recs[j], "index", ""),
                               image_url |-> Get(recs[j], "image_url", ""),
                               caption |-> Get(recs[j], "caption", ""),
                               alt |-> Get(recs[j], "alt", ""),
                               width |-> Get(recs[j], "width", ""),
                               height |-> Get(recs[j], "height", "")]]])

\* to_html / _generate_html: the texts put into the page.
ToHtml(data) ==
    LET recs == Get(data, "results", <<>>)
    IN  Returned([head_title |-> Get(data, "title", "Untitled"),
                  title |-> Get(data, "title", "Image Captions"),
                  url |-> Get(data, "url", "N/A"),
                  total_images_found |-> Get(data, "total_images_found", "0"),
                  images_processed |-> Get(data, "images_processed", "0"),
                  images_failed |-> Get(data, "images_failed", "0"),
                  rows |-> [j \in 1..Len(recs) |->
                              [image_url |-> Get(recs[j], "image_url", ""),
                               img_alt |-> Get(recs[j], "caption", ""),
                               caption |-> Get(recs[j], "caption", "No caption"),
                               width |-> Get(recs[j], "width", "0"),
                               height |-> Get(recs[j], "height", "0"),
                               alt |-> IF Get(recs[j], "alt", "") # ""
                                       THEN Get(recs[j], "alt", "") ELSE ""]]])

\* to_markdown: the texts put into the document.
ToMarkdown(data) ==
    LET recs == Get(data, "results", <<>>)
    IN  Returned([title |-> Get(data, "title", "Image Captions"),
                  url |-> Get(data, "url", "N/A"),
                  total_images_found |-> Get(data, "total_images_found", "0"),
                  images_processed |-> Get(data, "images_processed", "0"),
                  images_failed |-> Get(data, "images_failed", "0"),
                  rows |-> [j \in 1..Len(recs) |->
                              [index |-> Get(recs[j], "index", "0"),
                               img_alt |-> Get(recs[j], "caption", ""),
                               image_url |-> Get(recs[j], "image_url", ""),
                               caption |-> Get(recs[j], "caption", "No caption"),
                               width |-> Get(recs[j], "width", "0"),
                               height |-> Get(recs[j], "height", "0"),
                               alt |-> Get(recs[j], "alt", "N/A")]]])

\* The other calls are at rest while a writer runs.
ExportFrame == UNCHANGED <<pipeline_vars, batch_vars, scrape_vars, history_vars, ui_vars>>

\* CaptionExporter.to_csv(data, output_path)
CallToCsv ==
    /\ export_pc = "idle"
    /\ \E data \in ExportData :
         /\ export_call' = [writer |-> "to_csv", data |-> data]
         /\ export_out' = ToCsv(data)
    /\ export_pc' = "done"
    /\ ExportFrame

\* CaptionExporter.to_html(data, output_path)
CallToHtml ==
    /\ export_pc = "idle"
    /\ \E data \in ExportData :
         /\ export_call' = [writer |-> "to_html", data |-> data]
         /\ export_out' = ToHtml(data)
    /\ export_pc' = "done"
    /\ ExportFrame

\* CaptionExporter.to_markdown(data, output_path)
CallToMarkdown ==
    /\ export_pc = "idle"
    /\ \E data \in ExportData :
         /\ export_call' = [writer |-> "to_markdown", data |-> data]
         /\ export_out' = ToMarkdown(data)
    /\ export_pc' = "done"
    /\ ExportFrame

\* The file is written; the next call can start.
ExportReturn ==
    /\ export_pc = "done"
    /\ export_pc' = "idle"
    /\ export_call' = None
    /\ export_out' = None
    /\ ExportFrame

\* ----------------------------------------------------------- specifications

\* The other calls are at rest while a process_url / process_article call runs.
PipelineFrame == UNCHANGED <<batch_vars, scrape_vars, history_vars, ui_vars, export_vars>>

Next ==
    \/ CallProcessUrl /\ PipelineFrame
    \/ CallProcessArticle /\ PipelineFrame
    \/ TitleFetch /\ PipelineFrame
    \/ Extract /\ PipelineFrame
    \/ Cap /\ PipelineFrame
    \/ Download /\ PipelineFrame
    \/ Generate /\ PipelineFrame
    \/ Finish /\ PipelineFrame
    \/ Return /\ PipelineFrame

Spec == Init /\ [][Next]_vars

NextBatch ==
    \/ CallProcessImageBatch
    \/ CaptionBatch
    \/ BatchReturn

SpecBatch == Init /\ [][NextBatch]_vars

NextUi ==
    \/ CallHandler
    \/ InitModels
    \/ HandlerBody
    \/ HandlerReturn
    \/ PipelineMethodCall

SpecUi == Init /\ [][NextUi]_vars

NextExport ==
    \/ CallToCsv
    \/ CallToHtml
    \/ CallToMarkdown
    \/ ExportReturn

SpecExport == Init /\ [][NextExport]_vars

\* Largest number of <img> elements on the page of a call that is repeated.
MaxRepeatImgs == 2

\* What the GET of the page of such a call can come to.
RepeatPageResponses ==
    {resp \in PageResponses : Len(resp.els) <= MaxRepeatImgs}

\* The inputs of the running process_url call: its arguments, what the GETs
\* of the page answered and what the oracle answered to each request.
RunInputs ==
    [prompt |-> prompt, max_images |-> max_images,
     max_images_is_none |-> max_images_is_none, title_status |-> title_status,
     page |-> page, oracle |-> oracle_log]

\* The running call has the inputs of the remembered one, as far as it has
\* read them: same arguments, same title response, and an oracle that
\* answers a request it was sent before as it did then.
RepeatsPrevious ==
    (previous # None /\ pc # "idle") =>
        /\ prompt = previous.inputs.prompt
        /\ max_images = previous.inputs.max_images
        /\ max_images_is_none = previous.inputs.max_images_is_none
        /\ title_status \in {"none", previous.inputs.title_status}
        /\ \A j \in 1..Len(oracle_log) :
               (/\ j <= Len(previous.inputs.oracle)
                /\ previous.inputs.oracle[j].image = oracle_log[j].image
                /\ previous.inputs.oracle[j].prompt = oracle_log[j].prompt)
                   => oracle_log[j].outcome = previous.inputs.oracle[j].outcome

\* A step of a process_url call under the identical environment.
Repeated(Step) ==
    /\ Step
    /\ UNCHANGED <<batch_vars, scrape_vars, history_vars, ui_vars, export_vars>>
    /\ RepeatsPrevious'

\* The scraper call of the run: the page answers as it did for the
\* remembered call, if there is one.
RepeatedExtract ==
    /\ pc = "scrape"
    /\ \E resp \in (IF previous = None THEN RepeatPageResponses
                    ELSE {previous.inputs.page}) :
         /\ ExtractAnswered(resp)
         /\ page' = resp
    /\ UNCHANGED <<batch_vars, scrape_vars, pipeline_used, previous, ui_vars, export_vars>>

\* The call ends and is not remembered.
ReturnForgotten ==
    /\ Return
    /\ pipeline_used' = TRUE
    /\ page' = None
    /\ UNCHANGED <<previous, batch_vars, scrape_vars, ui_vars, export_vars>>

\* The call returned a summary and is remembered, to be repeated.
ReturnRemembered ==
    /\ pc = "done"
    /\ previous = None
    /\ Return
    /\ previous' = [inputs |-> RunInputs, summary |-> summary, first |-> ~pipeline_used]
    /\ pipeline_used' = TRUE
    /\ page' = None
    /\ UNCHANGED <<batch_vars, scrape_vars, ui_vars, export_vars>>

NextRepeat ==
    \/ Repeated(CallProcessUrl)
    \/ Repeated(TitleFetch)
    \/ RepeatedExtract
    \/ Repeated(Cap)
    \/ Repeated(Download)
    \/ Repeated(Generate)
    \/ Repeated(Finish)
    \/ ReturnForgotten
    \/ ReturnRemembered

SpecRepeat == Init /\ [][NextRepeat]_vars

NextScrape ==
    \/ CallScrapeImages
    \/ CallScrapeArticleImages
    \/ ScrapeReturn

SpecScrape == Init /\ [][NextScrape]_vars

\* ------------------------------------------------------------------ claims

\* How many records of a list carry index k.
CountIdx(recs, k) == Cardinality({j \in 1..Len(recs) : recs[j].index = k})

StrictlyAscending(recs) ==
    \A a, b \in 1..Len(recs) : a < b => recs[a].index < recs[b].index

\* download_image gave no image for item k.
FetchFailedAt(k) ==
    \E j \in 1..Len(fetch_log) :
        /\ fetch_log[j].at = k
        /\ (fetch_log[j].raised # "none" \/ fetch_log[j].value = None)

\* generate_caption raised for item k.
OracleRaisedAt(k) ==
    \E j \in 1..Len(oracle_log) : oracle_log[j].at = k /\ oracle_log[j].outcome # "ok"

ExtractionFailed == page_status \notin {"none", "ok"}

SummaryFields == {"url", "title", "total_images_found", "images_processed",
                  "images_failed", "results", "errors"}

\* C1: in every returned summary images_processed + images_failed =
\* total_images_found, the two counts are the lengths of results and errors,
\* and every position 1..n of the capped descriptor sequence is the index of
\* exactly one record of results and errors together, that record carrying
\* the URL of the descriptor at that position; no other index occurs.
C1_SummaryPartitions ==
    pc = "done" =>
        /\ summary.images_processed + summary.images_failed = summary.total_images_found
        /\ summary.images_processed = Len(summary.results)
        /\ summary.images_failed = Len(summary.errors)
        /\ summary.total_images_found = Len(images)
        /\ \A k \in 1..Len(images) :
               CountIdx(summary.results, k) + CountIdx(summary.errors, k) = 1
        /\ \A j \in 1..Len(summary.results) :
               /\ summary.results[j].index \in 1..Len(images)
               /\ summary.results[j].image_url = images[summary.results[j].index].url
        /\ \A j \in 1..Len(summary.errors) :
               /\ summary.errors[j].index \in 1..Len(images)
               /\ summary.errors[j].url = images[summary.errors[j].index].url

\* A capped process_url run has returned with successes and failures.
C1_Witness ==
    /\ pc = "done"
    /\ mode = "url"
    /\ max_images > 0
    /\ Len(scraped) > max_images
    /\ Len(summary.results) >= 1
    /\ Len(summary.errors) >= 1

\* C2: an item whose download gave no image, or for which the oracle raised,
\* has exactly one failure record and no caption record; no per-item failure
\* makes the call raise; and a call that returned has fetched every item of
\* the batch, those after a failed one included.
C2_FailuresIsolated ==
    /\ \A k \in 1..pos :
           (FetchFailedAt(k) \/ OracleRaisedAt(k))
               => CountIdx(errors, k) = 1 /\ CountIdx(results, k) = 0
    /\ (fetch_log # <<>> => pc # "raised")
    /\ pc = "done" =>
           /\ summary # None
           /\ \A k \in 1..Len(images) : \E j \in 1..Len(fetch_log) : fetch_log[j].at = k
           /\ \A k \in 1..Len(images) :
                  ~(FetchFailedAt(k) \/ OracleRaisedAt(k)) => CountIdx(summary.results, k) = 1

\* process_url returned for a batch of three whose second item failed: two
\* caption records, one failure record.
C2_Witness ==
    /\ pc = "done"
    /\ mode = "url"
    /\ Len(images) = 3
    /\ OracleRaisedAt(2)
    /\ FetchFailedAt(2) = FALSE
    /\ Len(summary.results) = 2
    /\ Len(summary.errors) = 1

\* C3: the index of every result record and every error record is the
\* 'index' the extractor stamped on the descriptor the record was made from.
C3_IndexIsStampedIndex ==
    \A j \in 1..Len(record_log) :
        record_log[j].rec.index = images[record_log[j].at].index

\* C4: a call ends with a summary of the seven fields or with an exception,
\* never both and never a summary before the end; a failed extraction (GET
\* or parse) ends the call with the exception, without a summary and without
\* any image download or oracle call, and nothing else makes the call raise.
C4_SummaryOrFatal ==
    /\ (summary # None) <=> (pc = "done")
    /\ pc = "done" => DOMAIN summary = SummaryFields
    /\ ExtractionFailed =>
           /\ pc = "raised"
           /\ summary = None
           /\ fetch_log = <<>>
           /\ oracle_log = <<>>
    /\ pc = "raised" => ExtractionFailed

\* The title was fetched, then the extraction GET failed and the call raised.
C4_Witness ==
    /\ pc = "raised"
    /\ title_status = "ok"
    /\ page_status = "http_error"

\* C5: results and errors are each in strictly ascending index order, while
\* the loop runs and in the summary.
C5_AscendingOrder ==
    /\ StrictlyAscending(results)
    /\ StrictlyAscending(errors)
    /\ pc = "done" =>
           /\ StrictlyAscending(summary.results)
           /\ StrictlyAscending(summary.errors)

\* A returned summary in which a failure lies between two successes.
C5_Witness ==
    /\ pc = "done"
    /\ Len(summary.results) >= 2
    /\ Len(summary.errors) >= 1
    /\ \E a, b \in 1..Len(summary.results), e \in 1..Len(summary.errors) :
           /\ summary.results[a].index < summary.errors[e].index
           /\ summary.errors[e].index < summary.results[b].index

\* C6: with max_images = n > 0 and k descriptors from the extractor,
\* process_url runs over exactly the first min(n, k) descriptors, in order,
\* downloads and captions no later one, and reports total_images_found =
\* min(n, k).
C6_CapIsFirstN ==
    (mode = "url" /\ max_images > 0 /\ pc \in {"loop", "caption", "done"}) =>
        LET m == IF max_images <= Len(scraped) THEN max_images ELSE Len(scraped)
        IN  /\ Len(images) = m
            /\ \A k \in 1..m : images[k] = scraped[k]
            /\ \A j \in 1..Len(fetch_log) :
                   /\ fetch_log[j].at = j
                   /\ j <= m
                   /\ fetch_log[j].url = scraped[j].url
            /\ \A j \in 1..Len(oracle_log) : oracle_log[j].at <= m
            /\ pc = "done" =>
                   /\ summary.total_images_found = m
                   /\ Len(fetch_log) = m

\* Three descriptors, max_images = 2, the call returned.
C6_Witness ==
    /\ pc = "done"
    /\ mode = "url"
    /\ max_images = 2
    /\ Len(scraped) = 3
    /\ summary.total_images_found = 2

\* Why the GET of an image URL yields no image under min_size: "download"
\* (non-2xx status or transport error), "decode" (the payload is no image
\* PIL opens), "small" (fewer than min_size pixels), "none" (it yields one).
FetchCause(u, min_size) ==
    LET r == Web(u)
    IN  IF r.status # "ok" THEN "download"
        ELSE IF r.payload.kind # "Image" THEN "decode"
        ELSE IF r.payload.width * r.payload.height < min_size THEN "small"
        ELSE "none"

\* The download_image call made for item k.
FetchOf(k) == fetch_log[CHOOSE j \in 1..Len(fetch_log) : fetch_log[j].at = k]

\* The generate_caption call made for item k.
OracleOf(k) == oracle_log[CHOOSE j \in 1..Len(oracle_log) : oracle_log[j].at = k]

ErrorEntries == {j \in 1..Len(record_log) : record_log[j].kind = "error"}

C8_OracleImagesAtLeastMinSize ==
    \A j \in 1..Len(oracle_log) :
        oracle_log[j].image.width * oracle_log[j].image.height >= min_image_size

\* C9: download_image never raises; it returns an image only when the GET
\* succeeded, the payload decoded and width * height >= min_size, and None
\* after a transport error, a non-2xx status, an undecodable payload or any
\* other exception.
C9_DownloadNeverRaises ==
    \A j \in 1..Len(fetch_log) :
        LET call == fetch_log[j]
            cause == FetchCause(call.url, call.min_size)
        IN  /\ call.raised = "none"
            /\ call.value # None => cause = "none"
            /\ cause \in {"download", "decode"} => call.value = None

\* download_image was called on a payload for which PIL raises an exception
\* that is neither a RequestException nor an OSError, and returned None.
C9_Witness ==
    \E j \in 1..Len(fetch_log) :
        /\ Web(fetch_log[j].url).payload.kind = "bomb"
        /\ fetch_log[j].raised = "none"
        /\ fetch_log[j].value = None

\* C10: when the title GET fails or the page has no <title>, the title is ""
\* and nothing is raised: the call goes on to the extraction, and a call that
\* returns carries title "" and has run the loop over every descriptor.
C10_TitleFailureIsEmptyTitle ==
    /\ title_status \in {"failed", "no_title"} => page_title = ""
    /\ (title_status # "none" /\ page_status = "none") => pc = "scrape"
    /\ (pc = "done" /\ title_status \in {"failed", "no_title"}) =>
           /\ summary.title = ""
           /\ page_status = "ok"
           /\ Len(fetch_log) = Len(images)
           /\ summary.images_processed + summary.images_failed = Len(images)

\* The title GET failed and the call returned a summary with a caption.
C10_Witness ==
    /\ pc = "done"
    /\ title_status = "failed"
    /\ summary.title = ""
    /\ Len(summary.results) >= 1

\* The record process_url appends for the item of record_log entry j, given
\* the descriptor, the fetch outcome and the oracle outcome of that entry.
UrlModeRecord(j) ==
    LET k == record_log[j].at
        img_data == images[k]
    IN  IF record_log[j].kind = "result"
        THEN ResultRecord("url", k, img_data, OracleOf(k).image, Caption(OracleOf(k).image, prompt))
        ELSE IF FetchFailedAt(k) THEN FetchFailure("url", k, img_data)
        ELSE OracleFailure(k, img_data, StrOf(OracleOf(k).outcome))

\* Record r without its field f.
Without(r, f) == [g \in DOMAIN r \ {f} |-> r[g]]

\* C11: every record that process_article appends is the record process_url
\* appends for the same descriptor, fetch outcome and oracle outcome, except
\* that a success record carries the one extra field original_caption, the
\* descriptor's nearby caption; the counts and the order follow from that.
C11_ArticleRunsAsUrl ==
    mode = "article" =>
        \A j \in 1..Len(record_log) :
            IF record_log[j].kind = "result"
            THEN /\ "original_caption" \in DOMAIN record_log[j].rec
                 /\ record_log[j].rec.original_caption = images[record_log[j].at].caption
                 /\ Without(record_log[j].rec, "original_caption") = UrlModeRecord(j)
            ELSE record_log[j].rec = UrlModeRecord(j)

\* C12: a batch call over n paths does not raise and returns n records in
\* input order, a failure record (no caption, error set) for each path whose
\* captioning failed and a caption record for every other path.
C12_BatchReturnsNRecords ==
    batch_pc \in {"done", "raised"} =>
        /\ batch_out.raised = "none"
        /\ Len(batch_out.value) = Len(batch_locals.image_paths)
        /\ \A i \in 1..Len(batch_locals.image_paths) :
               LET r == batch_out.value[i]
                   image_path == batch_locals.image_paths[i]
               IN  /\ r.image_path = image_path
                   /\ IF GenerateCaptionFromPath(image_path, batch_locals.prompt).raised # "none"
                      THEN r.caption = "None" /\ "error" \in DOMAIN r
                      ELSE r.caption # "None" /\ "error" \notin DOMAIN r

\* A URL with scheme http or https and a host.
IsAbsoluteHttp(u) ==
    \/ StartsWith(u, <<"http", ":", "/", "/">>) /\ Len(u) >= 5
    \/ StartsWith(u, <<"http", "s", ":", "/", "/">>) /\ Len(u) >= 6

\* A URI of scheme data; a scheme is case-insensitive (RFC 3986, 3.1).
IsDataScheme(u) == Len(u) >= 2 /\ LowerTok(u[1]) = "data" /\ u[2] = ":"

\* A URL that ends in or contains ".svg", whatever the case.
NamesSvg(u) == Contains(Lower(u), <<".", "svg">>)

\* C13: every descriptor url a scraper call emits is absolute with scheme
\* http or https, names no SVG and is no data URI, whatever the source was:
\* another scheme, DATA: in upper case, a relative path that begins with the
\* letters http.
C13_UrlsAbsoluteHttp ==
    scrape_pc = "done" =>
        \A j \in 1..Len(scrape_out) :
            /\ IsAbsoluteHttp(scrape_out[j].url)
            /\ ~NamesSvg(scrape_out[j].url)
            /\ ~IsDataScheme(scrape_out[j].url)

\* The source attribute value of an <img>: src, else data-src, else the
\* first URL of srcset; NoStr when it has none.
SourceOf(img) == IF img.src # NoStr THEN img.src
                 ELSE IF img.data_src # NoStr THEN img.data_src
                 ELSE SrcsetFirst(img.srcset)

\* A relative reference with a path only, not starting with "/".
IsDocumentRelative(s) == s # NoStr /\ SchemeEnd(s) = 0 /\ ~StartsWith(s, <<"/">>)

\* C14: _extract_image_url turns a protocol-relative source into "https:" +
\* source, resolves a root-relative source against the origin of the base
\* URL and a document-relative source against the directory of the base
\* URL, and returns an absolute http/https source unchanged; "/big.jpg"
\* under https://example.com/page is https://example.com/big.jpg.
C14_SourcesResolved ==
    scrape_pc = "done" =>
        \A k \in 1..Len(scrape_els) :
            LET s == SourceOf(scrape_els[k])
                img_url == ExtractImageUrl(scrape_els[k], scrape_base)
            IN  /\ StartsWith(s, <<"/", "/">>) => img_url = <<"http", "s", ":">> \o s
                /\ (StartsWith(s, <<"/">>) /\ ~StartsWith(s, <<"/", "/">>))
                       => img_url = Origin(scrape_base) \o s
                /\ IsDocumentRelative(s) => img_url = DirOf(scrape_base) \o s
                /\ IsAbsoluteHttp(s) => img_url = s
                /\ (s = <<"/", "big", ".", "jpg">> /\ scrape_base = BaseUrl)
                       => img_url = <<"http", "s", ":", "/", "/", "example.com", "/",
                                      "big", ".", "jpg">>

\* C15: the index fields of the descriptors of a scraper call are strictly
\* increasing, and each is the 1-based position, among all <img> elements of
\* the searched region and before any filtering, of the element the
\* descriptor was built from; an element that is filtered out still takes up
\* its position.
C15_IndexIsDocumentPosition ==
    scrape_pc = "done" =>
        /\ StrictlyAscending(scrape_out)
        /\ \A j \in 1..Len(scrape_out) :
               /\ scrape_out[j].index \in 1..Len(scrape_els)
               /\ scrape_out[j].url =
                      ExtractImageUrl(scrape_els[scrape_out[j].index], scrape_base)
               /\ scrape_out[j].alt = scrape_els[scrape_out[j].index].alt
        /\ \A k \in 1..Len(scrape_els) :
               Kept(scrape_els[k], scrape_base)
                   <=> \E j \in 1..Len(scrape_out) : scrape_out[j].index = k

\* A region of two elements whose first is an SVG: one descriptor, index 2.
C15_Witness ==
    /\ scrape_pc = "done"
    /\ Len(scrape_els) = 2
    /\ scrape_els[1] = ImgSvg
    /\ Len(scrape_out) = 1
    /\ scrape_out[1].index = 2

\* C16: an element is left out whenever its resolved URL ends in or contains
\* ".svg" in any case, or its source is a data URI; a region holding only
\* <img src="pic.svg"> gives no descriptor.
C16_SvgAndDataExcluded ==
    scrape_pc = "done" =>
        /\ \A k \in 1..Len(scrape_els) :
               LET s == SourceOf(scrape_els[k])
                   img_url == ExtractImageUrl(scrape_els[k], scrape_base)
               IN  (s # NoStr /\ (NamesSvg(img_url) \/ IsDataScheme(s)))
                       => \A j \in 1..Len(scrape_out) : scrape_out[j].index # k
        /\ scrape_els = <<ImgSvg>> => scrape_out = <<>>

\* C17: a process_url call with the arguments, the page, the image responses
\* and the oracle answers of an earlier call on the same pipeline object
\* returns the summary that call returned, whatever the pipeline was used
\* for before.
C17_RepeatGivesEqualSummary ==
    (pc = "done" /\ previous # None) =>
        /\ RunInputs = previous.inputs
        /\ summary = previous.summary

\* A call that was not the first on its pipeline returned a summary with a
\* caption, and its repeat has returned.
C17_Witness ==
    /\ pc = "done"
    /\ previous # None
    /\ previous.first = FALSE
    /\ Len(previous.summary.results) = 1
    /\ summary = previous.summary

\* C18: the pipeline's oracle is the one its constructor made, whatever
\* pipeline methods were called since; and whatever handlers ran, each
\* lazily-initialised component of the app was constructed at most once and
\* the attribute, once set, still holds that first object.
C18_ConstructedOnce ==
    /\ oracles_built <= 1
    /\ oracle = oracles_built
    /\ (components["pipeline"] # 0) = (oracle = 1)
    /\ \A c \in DOMAIN components :
           /\ built[c] <= 1
           /\ components[c] = built[c]

\* caption_from_url ran to its end, process_url included, with every
\* component of the app set.
C18_Witness ==
    /\ ui_pc = "done"
    /\ ui_call.handler = "caption_from_url"
    /\ ui_out = "result"
    /\ \A c \in DOMAIN components : components[c] = 1
    /\ oracle = 1

\* The text a writer put where field f of dictionary d goes, when d has no f.
WrittenForMissing(d, f, written) == IF f \in d.keys THEN {} ELSE {written}

\* The field of the data that a place of the written document shows.
FieldShown(place) == CASE place = "head_title" -> "title"
                       [] place = "img_alt" -> "caption"
                       [] OTHER -> place

\* Every text a writer wrote in place of a field its data does not have:
\* the fields of the summary and of each record that the writer renders.
MissingTexts ==
    LET data == export_call.data
        doc == export_out.value
        recs == Get(data, "results", <<>>)
    IN  UNION {WrittenForMissing(data, FieldShown(f), doc[f]) :
                 f \in DOMAIN doc \ {"header", "rows"}}
        \cup UNION {UNION {WrittenForMissing(recs[j], FieldShown(f), doc.rows[j][f]) :
                             f \in DOMAIN doc.rows[j]} :
                      j \in 1..Len(recs)}

\* C19 as stated: a writer handed a summary with fields absent does not
\* raise and writes an empty text or a zero for each absent field.
C19_DefaultsEmptyOrZero ==
    export_pc = "done" =>
        /\ export_out.raised = "none"
        /\ MissingTexts \subseteq {"", "0"}

\* The text each writer has for a place whose field is absent.
DefaultAt(writer, place) ==
    IF writer = "to_csv" THEN ""
    ELSE IF place \in {"total_images_found", "images_processed", "images_failed",
                       "width", "height", "index"} THEN "0"
    ELSE IF place = "head_title" THEN "Untitled"
    ELSE IF place = "title" THEN "Image Captions"
    ELSE IF place = "url" THEN "N/A"
    ELSE IF place = "caption" THEN "No caption"
    ELSE IF place = "alt" /\ writer = "to_markdown" THEN "N/A"
    ELSE ""

\* What a writer must have put at a place for dictionary d.
Expected(writer, d, place) ==
    IF FieldShown(place) \in d.keys THEN d.at[FieldShown(place)]
    ELSE DefaultAt(writer, place)

\* C19 amended: a writer handed a summary with fields absent does not raise,
\* writes one row for each record and the value of every field that is there,
\* and for an absent field writes its own default: to_csv the empty text
\* everywhere; to_html and to_markdown "0" for a count, a width, a height or
\* an index, "N/A" for the url, "Image Captions" for the title ("Untitled" in
\* the HTML <title>), "No caption" for the caption text, the empty text for
\* the image address and the image's alt attribute, and for the alt text
\* nothing in HTML and "N/A" in Markdown.
C19_DefaultsAsCoded ==
    export_pc = "done" =>
        LET data == export_call.data
            doc == export_out.value
            recs == Get(data, "results", <<>>)
        IN  /\ export_out.raised = "none"
            /\ Len(doc.rows) = Len(recs)
            /\ \A f \in DOMAIN doc \ {"header", "rows"} :
                   doc[f] = Expected(export_call.writer, data, f)
            /\ \A j \in 1..Len(recs) : \A f \in DOMAIN doc.rows[j] :
                   doc.rows[j][f] = Expected(export_call.writer, recs[j], f)

\* to_html was handed a summary without title whose one record has no
\* caption, and wrote the page.
C19_Witness ==
    /\ export_pc = "done"
    /\ export_call.writer = "to_html"
    /\ "title" \notin export_call.data.keys
    /\ "results" \in export_call.data.keys
    /\ Len(export_call.data.at.results) = 1
    /\ "caption" \notin export_call.data.at.results[1].keys
    /\ export_out.raised = "none"
    /\ export_out.value.head_title = "Untitled"
    /\ export_out.value.rows[1].caption = "No caption"

\* C20: every image download_image returned is in mode RGB with the width
\* and height of the payload, an RGB payload being returned as it is; and
\* every image handed to the oracle is in mode RGB.
C20_ImagesAreRgb ==
    /\ \A j \in 1..Len(fetch_log) :
           fetch_log[j].value # None =>
               LET payload == Web(fetch_log[j].url).payload
               IN  /\ fetch_log[j].value.mode = "RGB"
                   /\ fetch_log[j].value.width = payload.width
                   /\ fetch_log[j].value.height = payload.height
                   /\ payload.mode = "RGB" => fetch_log[j].value = payload
    /\ \A j \in 1..Len(oracle_log) : oracle_log[j].image.mode = "RGB"
    /\ image # None => image.mode = "RGB"

\* A palette image and an RGB image were downloaded, and the oracle was
\* handed the converted palette image.
C20_Witness ==
    /\ \E j \in 1..Len(fetch_log) :
           /\ Web(fetch_log[j].url).payload.kind = "Image"
           /\ Web(fetch_log[j].url).payload.mode = "RGB"
           /\ fetch_log[j].value # None
    /\ \E j \in 1..Len(fetch_log), k \in 1..Len(oracle_log) :
           /\ Web(fetch_log[j].url).payload.kind = "Image"
           /\ Web(fetch_log[j].url).payload.mode = "P"
           /\ fetch_log[j].value # None
           /\ oracle_log[k].at = fetch_log[j].at
           /\ oracle_log[k].image = fetch_log[j].value

\* C21: in a run download_image is called once for each descriptor of the
\* capped sequence and never again after a failure, the calls go through
\* the positions 1, 2, ... in order, and the call for one item is made only
\* when every item before it has its caption record or its failure record.
C21_OneFetchPerItemInOrder ==
    /\ \A j \in 1..Len(fetch_log) :
           /\ fetch_log[j].at = j
           /\ j <= Len(images)
           /\ fetch_log[j].url = images[j].url
    /\ \A j \in 1..Len(record_log) : record_log[j].at = j
    /\ Len(record_log) <= Len(fetch_log)
    /\ Len(fetch_log) <= Len(record_log) + 1
    /\ pc = "caption" <=> Len(fetch_log) = Len(record_log) + 1
    /\ pc = "done" => Len(fetch_log) = Len(images)

\* A run over three descriptors returned; the fetch of the first failed and
\* the other two were fetched after it.
C21_Witness ==
    /\ pc = "done"
    /\ Len(images) = 3
    /\ Len(fetch_log) = 3
    /\ FetchFailedAt(1)
    /\ ~FetchFailedAt(2)
    /\ record_log[1].kind = "error"

\* How many generate_caption calls were made for item k.
OracleCallsAt(k) == Cardinality({j \in 1..Len(oracle_log) : oracle_log[j].at = k})

\* C22: generate_caption is called once for each descriptor whose download
\* gave an image, with that image, and never for one whose download gave
\* none; every call gets the prompt the run was called with.
C22_OracleOncePerFetchedImage ==
    /\ \A j \in 1..Len(oracle_log) :
           /\ ~FetchFailedAt(oracle_log[j].at)
           /\ oracle_log[j].image = FetchOf(oracle_log[j].at).value
           /\ oracle_log[j].prompt = prompt
    /\ \A k \in 1..Len(fetch_log) :
           /\ OracleCallsAt(k) <= 1
           /\ FetchFailedAt(k) => OracleCallsAt(k) = 0
           /\ (k <= pos /\ ~FetchFailedAt(k)) => OracleCallsAt(k) = 1
    /\ pc = "done" =>
           \A k \in 1..Len(images) : OracleCallsAt(k) = IF FetchFailedAt(k) THEN 0 ELSE 1

\* A run called with a prompt returned after two oracle calls and one
\* failed download.
C22_Witness ==
    /\ pc = "done"
    /\ prompt = "a photo of"
    /\ Len(images) = 3
    /\ Len(oracle_log) = 2
    /\ \E k \in 1..3 : FetchFailedAt(k)

\* C23: the stages of a run come in the order title fetch, extraction,
\* capping, loop, aggregation: the scraper is called only after the title
\* fetch, no download and no oracle call is made before the scraper
\* returned, from the first download on the batch is the capped sequence and
\* stays so, and the summary exists only when every descriptor of it has its
\* record, its total_images_found being the length of that sequence.
C23_StagesInOrder ==
    /\ page_status # "none" => title_status # "none"
    /\ (fetch_log # <<>> \/ oracle_log # <<>> \/ record_log # <<>>) =>
           /\ page_status = "ok"
           /\ pc \in {"loop", "caption", "done"}
    /\ pc \in {"loop", "caption", "done"} =>
           images = IF mode = "url" THEN CapImages(scraped, max_images) ELSE scraped
    /\ oracle_log # <<>> => fetch_log # <<>>
    /\ summary # None <=> pc = "done"
    /\ pc = "done" =>
           /\ Len(record_log) = Len(images)
           /\ summary.total_images_found = Len(images)
           /\ summary.title = page_title

\* A process_url run with a title, three descriptors and max_images = 2
\* returned its summary.
C23_Witness ==
    /\ pc = "done"
    /\ mode = "url"
    /\ title_status = "ok"
    /\ max_images = 2
    /\ Len(scraped) = 3
    /\ Len(record_log) = 2
    /\ summary.total_images_found = 2

\* An element whose only source attribute is src = s.
OnlySrc(s) == Img(s, NoStr, NoStr, "")

\* C24: a scraper call does not raise over its elements' sources; for every
\* <img> element the source is src when non-empty, else data-src when
\* non-empty, else the first URL of srcset: the element is treated as an
\* element with that source alone would be, and an element with none of the
\* three gives no descriptor.
C24_SourceByPriority ==
    scrape_pc # "idle" =>
        /\ scrape_pc = "done"
        /\ \A k \in 1..Len(scrape_els) :
               LET s == SourceOf(scrape_els[k])
               IN  /\ ExtractImageUrl(scrape_els[k], scrape_base)
                          = ExtractImageUrl(OnlySrc(s), scrape_base)
                   /\ s = NoStr => \A j \in 1..Len(scrape_out) : scrape_out[j].index # k
                   /\ Kept(OnlySrc(s), scrape_base)
                          => \E j \in 1..Len(scrape_out) :
                                 /\ scrape_out[j].index = k
                                 /\ scrape_out[j].url = ExtractImageUrl(OnlySrc(s), scrape_base)

\* The part of C24 that the code keeps: a call that returned took every
\* source by priority.
C24_PriorityWhenReturned == scrape_pc = "raised" \/ C24_SourceByPriority

\* Selector i of the list matches some block of the page.
Matches(doc, i) == \E b \in 1..Len(doc) : content_selectors[i] \in doc[b].matches

\* C25: scrape_article_images searches the region of the first selector, in
\* the order article, .article-content, .post-content, .entry-content,
\* #content, main, that matches anything, whatever later selectors match;
\* when no selector matches it searches the whole page, and the missing
\* match is not what makes the call raise.
C25_FirstSelectorWins ==
    (scrape_pc # "idle" /\ scrape_scope = "article") =>
        /\ content_selectors = <<"article", ".article-content", ".post-content",
                                 ".entry-content", "#content", "main">>
        /\ \A i \in 1..Len(content_selectors) :
               (Matches(scrape_doc, i) /\ \A j \in 1..(i - 1) : ~Matches(scrape_doc, j))
                   => \E b \in 1..Len(scrape_doc) :
                          /\ content_selectors[i] \in scrape_doc[b].matches
                          /\ \A a \in 1..(b - 1) :
                                 content_selectors[i] \notin scrape_doc[a].matches
                          /\ scrape_els = scrape_doc[b].imgs
        /\ (\A i \in 1..Len(content_selectors) : ~Matches(scrape_doc, i))
               => scrape_els = FindAllImg(scrape_doc)
        /\ ~ScrapeRaises(scrape_els) =>
               /\ scrape_pc = "done"
               /\ scrape_out = ScrapeArticleImages(scrape_els, scrape_base)

\* A page whose first block is a <main> with one image and whose second is
\* an <article> with another: the descriptor is the article's.
C25_Witness ==
    /\ scrape_pc = "done"
    /\ scrape_scope = "article"
    /\ Len(scrape_doc) = 2
    /\ scrape_doc[1] = Block({"main"}, <<ImgSmall>>)
    /\ scrape_doc[2] = Block({"article"}, <<ImgBig>>)
    /\ Len(scrape_out) = 1
    /\ scrape_out[1].alt = "Big"

\* A page of two plain blocks: no selector matches and both images are
\* described.
C25_WitnessFallback ==
    /\ scrape_pc = "done"
    /\ scrape_scope = "article"
    /\ Len(scrape_doc) = 2
    /\ scrape_doc[1].matches = {} /\ scrape_doc[2].matches = {}
    /\ Len(scrape_out) = 2

\* The descriptor the call built from element k, as a set: empty when the
\* element was left out.
DescriptorsOf(k) == {scrape_out[j] : j \in {i \in 1..Len(scrape_out) : scrape_out[i].index = k}}

\* The caption of C26 as stated: the figcaption of a parent figure, else
\* the text of a next sibling with class caption, else the empty string.
CaptionAsStated(img) ==
    IF img.parent = "figure" /\ img.has_figcaption THEN Strip(img.figcaption)
    ELSE IF img.sibling # "none" /\ "caption" \in img.sibling_class
         THEN Strip(img.sibling_text)
    ELSE NoStr

\* C26 as stated: the caption of every descriptor of an article-scope call
\* is the stripped text of the figcaption of the image's figure when there
\* is one, otherwise the stripped text of the next sibling element when it
\* has the class caption, otherwise the empty string.
C26_CaptionFigureThenSibling ==
    (scrape_pc = "done" /\ scrape_scope = "article") =>
        \A k \in 1..Len(scrape_els) : \A d \in DescriptorsOf(k) :
            d.caption = CaptionAsStated(scrape_els[k])

\* C26 as the code has it: the sibling counts only when it is a <p>, <div>
\* or <span>; otherwise as stated, the figure first, and every kept element
\* gets a caption, empty when nothing is found.
C26_CaptionAsCoded ==
    (scrape_pc = "done" /\ scrape_scope = "article") =>
        \A k \in 1..Len(scrape_els) :
            /\ Kept(scrape_els[k], scrape_base) => DescriptorsOf(k) # {}
            /\ \A d \in DescriptorsOf(k) :
                   LET img == scrape_els[k]
                   IN  d.caption =
                           IF img.parent = "figure" /\ img.has_figcaption
                           THEN Strip(img.figcaption)
                           ELSE IF /\ img.sibling \in {"p", "div", "span"}
                                   /\ "caption" \in img.sibling_class
                                THEN Strip(img.sibling_text)
                           ELSE NoStr

\* An image in a figure that has both a <p class="caption"> after the image
\* and a <figcaption> was described with the figcaption's text.
C26_Witness ==
    /\ scrape_pc = "done"
    /\ scrape_scope = "article"
    /\ scrape_els = <<ImgFigureBoth>>
    /\ Len(scrape_out) = 1
    /\ scrape_out[1].caption = <<"Above">>

\* Sequence s is the beginning of sequence t.
IsPrefix(s, t) == Len(s) <= Len(t) /\ SubSeq(t, 1, Len(s)) = s

\* A step taken while the loop is under way keeps what was appended, and
\* when it ends an iteration it appends one record to one sequence.
AppendsOne ==
    pc \in {"loop", "caption"} =>
        /\ IsPrefix(results, results')
        /\ IsPrefix(errors, errors')
        /\ pos' \in {pos, pos + 1}
        /\ pos' = pos => (results' = results /\ errors' = errors)
        /\ pos' = pos + 1 =>
               \/ Len(results') = Len(results) + 1 /\ errors' = errors
               \/ Len(errors') = Len(errors) + 1 /\ results' = results
        /\ pc' = "done" => (pos = Len(images) /\ Len(results) + Len(errors) = pos)

\* C27: while the loop of a run is under way, results and errors only grow
\* at their ends: a step keeps every record already appended, and a step
\* that ends an iteration appends exactly one record to exactly one of the
\* two sequences and leaves the other as it was.
C27_AppendOnly == [][AppendsOne]_vars

\* A run over three descriptors ended with two results and one error, the
\* error being that of the second descriptor.
C27_Witness ==
    /\ pc = "done"
    /\ Len(images) = 3
    /\ Len(results) = 2
    /\ Len(errors) = 1
    /\ record_log[2].kind = "error"
    /\ record_log[1].kind = "result"

\* C28: a process_url run whose max_images is None or 0 is not capped: the
\* batch is every descriptor the extractor returned, each of them is
\* fetched and gets its record, and total_images_found is their number.
C28_NoCapWithoutMaxImages ==
    (mode = "url" /\ (max_images_is_none \/ max_images = 0)) =>
        /\ pc \in {"loop", "caption", "done"} => images = scraped
        /\ pc = "done" =>
               /\ summary.total_images_found = Len(scraped)
               /\ Len(fetch_log) = Len(scraped)
               /\ \A k \in 1..Len(scraped) : fetch_log[k].url = scraped[k].url
               /\ Len(record_log) = Len(scraped)
               /\ summary.images_processed + summary.images_failed = Len(scraped)

\* A process_url run with max_images = None over three descriptors returned.
C28_Witness ==
    /\ pc = "done"
    /\ mode = "url"
    /\ max_images_is_none
    /\ Len(scraped) = 3
    /\ summary.total_images_found = 3
    /\ Len(record_log) = 3

\* A process_url run with max_images = 0 over three descriptors returned.
C28_WitnessZero ==
    /\ pc = "done"
    /\ mode = "url"
    /\ ~max_images_is_none
    /\ max_images = 0
    /\ Len(scraped) = 3
    /\ summary.total_images_found = 3

\* caption_from_url has returned or been left.
UrlHandlerEnded == ui_pc = "done" /\ ui_call.handler = "caption_from_url"

\* C29 as stated: caption_from_url never raises; for a blank or
\* whitespace-only url it returns the warning with empty JSON and HTML and
\* has not called process_url; when something raised during initialisation,
\* processing or export it returns the error message with empty JSON and
\* HTML.
C29_BlankWarnsAndErrorsReturned ==
    UrlHandlerEnded =>
        /\ ui_out \in {"warning", "error", "result"}
        /\ UrlIsBlank(ui_call.url) =>
               /\ ui_out = "warning"
               /\ json_output = "" /\ html_output = ""
               /\ process_url_calls = 0
        /\ ui_raised # "none" =>
               /\ ui_out = "error"
               /\ json_output = "" /\ html_output = ""

\* C29 as the code has it: _init_models runs before the url is looked at, so
\* the warning is the answer to a blank url only when initialisation did not
\* raise; otherwise as stated.
C29_HandlerNeverRaises ==
    UrlHandlerEnded =>
        /\ ui_out \in {"warning", "error", "result"}
        /\ UrlIsBlank(ui_call.url) =>
               /\ process_url_calls = 0
               /\ ui_raised \in {"none", "_init_models"}
               /\ ui_raised = "none" => ui_out = "warning"
               /\ json_output = "" /\ html_output = ""
        /\ ui_raised # "none" =>
               /\ ui_out = "error"
               /\ json_output = "" /\ html_output = ""
        /\ (ui_raised = "none" /\ ~UrlIsBlank(ui_call.url)) =>
               /\ ui_out = "result"
               /\ process_url_calls = 1
               /\ json_output = "filled" /\ html_output = "filled"

\* process_url raised under caption_from_url, which returned the error
\* message.
C29_Witness ==
    /\ UrlHandlerEnded
    /\ ui_raised = "process_url"
    /\ ui_out = "error"
    /\ process_url_calls = 1

\* A whitespace-only url got the warning.
C29_WitnessBlank ==
    /\ UrlHandlerEnded
    /\ ui_call.url = <<" ", " ">>
    /\ ui_out = "warning"

====
